---- MODULE Spec2Model ----
(***************************************************************************)
(* Model of scrape_intel_ark.py: the resumable crawl-and-extraction engine *)
(* (SQLite state store, discovery walk, work queue, scrape loop, CSV sink),*)
(* and of the converters convert_to_wide.py and convert_to_llm.py.         *)
(* Text is a sequence of one-character strings; an item id (sku) is the    *)
(* TEXT of its digits, as the discovered_skus table stores it.             *)
(* Spec is the engine over a small catalog. SpecLoop, SpecSink, SpecNav,   *)
(* SpecPace, SpecText, SpecDetail and SpecListing each run one loop or one *)
(* function of it over inputs of their own. SpecWide and SpecJson run the  *)
(* converters over logs of their own; SpecSetup runs the start of the three*)
(* programs.                                                               *)
(***************************************************************************)
EXTENDS Integers, Sequences, FiniteSets, TLC

\* ---------------------------------------------------------------- bounds
\* Number of process runs (invocations of main) explored.
MaxRuns == 2
\* Largest --max-skus value explored (0 = no limit).
MaxLimit == 2

\* ------------------------------------------------------------------ text
Digits == <<"0", "1", "2", "3", "4", "5", "6", "7", "8", "9">>

\* Code point order of a character (only digits occur in ids).
Ord(c) == CHOOSE i \in 1..Len(Digits) : Digits[i] = c

\* SQLite's BINARY collation on TEXT: memcmp, then the shorter string first.
RECURSIVE TextLess(_, _)
TextLess(a, b) ==
  IF a = <<>> THEN b # <<>>
  ELSE IF b = <<>> THEN FALSE
  ELSE IF Head(a) # Head(b) THEN Ord(Head(a)) < Ord(Head(b))
  ELSE TextLess(Tail(a), Tail(b))

\* The number an id denotes (used by the claims only: the code never parses it).
RECURSIVE NumVal(_)
NumVal(a) == IF a = <<>> THEN 0 ELSE 10 * NumVal(SubSeq(a, 1, Len(a) - 1)) + (Ord(a[Len(a)]) - 1)

IsSpace(c) == c \in {" ", "\t", "\n"}

\* str.replace("\xa0", " ")
ReplaceNbsp(s) == [i \in 1..Len(s) |-> IF s[i] = "nbsp" THEN " " ELSE s[i]]

\* str.split() with no argument: the maximal runs of non-whitespace.
RECURSIVE SplitWs(_, _, _)
SplitWs(s, word, acc) ==
  IF s = <<>> THEN (IF word = <<>> THEN acc ELSE Append(acc, word))
  ELSE IF IsSpace(Head(s))
       THEN SplitWs(Tail(s), <<>>, IF word = <<>> THEN acc ELSE Append(acc, word))
       ELSE SplitWs(Tail(s), Append(word, Head(s)), acc)

\* " ".join(words)
RECURSIVE JoinSp(_)
JoinSp(words) ==
  IF words = <<>> THEN <<>>
  ELSE IF Len(words) = 1 THEN words[1]
  ELSE words[1] \o <<" ">> \o JoinSp(Tail(words))

\* str.strip()
RECURSIVE StripLeft(_)
StripLeft(s) == IF s # <<>> /\ IsSpace(Head(s)) THEN StripLeft(Tail(s)) ELSE s
RECURSIVE StripRight(_)
StripRight(s) ==
  IF s # <<>> /\ IsSpace(s[Len(s)]) THEN StripRight(SubSeq(s, 1, Len(s) - 1)) ELSE s
Strip(s) == StripRight(StripLeft(s))

\* Mutant of normalize_text: the ends are trimmed, the inner runs are kept.
normalize_text_StripOnly(value) == Strip(ReplaceNbsp(value))

\* " ".join(value.replace("\xa0", " ").split()).strip()
normalize_text(value) == Strip(JoinSp(SplitWs(ReplaceNbsp(value), <<>>, <<>>)))

BASE_URL == "https://www.intel.com"
to_abs_url(href) == [base |-> BASE_URL, href |-> href]

\* An href is modelled by what the code tests of it: kind "series" contains
\* "/ark/products/series/", kind "spec" contains "/products/sku/" and
\* "specifications.html", kind "sku" contains "/products/sku/" only; a missing
\* attribute (None) is NoHref.
Href(kind, id) == [kind |-> kind, id |-> id]
NoHref == Href("none", <<>>)

\* ------------------------------------------------------- the remote catalog
\* The site as the page scripts return it: the category names of the root page,
\* the link list shown for a category, and the product-table rows of a series
\* page. Item 10 is listed by both series and item 9 twice by one; some links
\* and rows are malformed.
CatD == <<"D">>
CatM == <<"M">>
HrefA == Href("series", <<"1">>)
HrefB == Href("series", <<"2">>)
Sku2 == <<"2">>
Sku9 == <<"9">>
Sku10 == <<"1", "0">>

Link(href, text) == [href |-> href, text |-> text]
TableRow(sku, name, href) == [sku |-> sku, name |-> name, href |-> href]

SiteLinks(cat) ==
  IF cat = CatD
  THEN << Link(HrefA, <<" ", "X">>), Link(Href("other", <<>>), <<"Z">>), Link(NoHref, <<"W">>) >>
  ELSE << Link(HrefB, <<"Y", "nbsp">>), Link(HrefB, <<" ">>) >>

SiteTable(url) ==
  IF url = to_abs_url(HrefA)
  THEN << TableRow(<<"9", " ">>, <<"N", " ", " ", "9">>, Href("spec", Sku9)),
          TableRow(<<>>, <<"N">>, Href("spec", <<"7">>)),
          TableRow(Sku10, <<"N", "a">>, Href("spec", Sku10)),
          TableRow(Sku9, <<"N", "c">>, Href("spec", Sku9)) >>
  ELSE << TableRow(Sku10, <<"N", "b">>, Href("spec", Sku10)),
          TableRow(<<"5">>, <<>>, NoHref),
          TableRow(<<"6">>, <<"N", "6">>, Href("sku", <<"6">>)),
          TableRow(Sku2, <<>>, Href("spec", Sku2)) >>

SiteCategories == << CatD, <<>>, <<"M", " ">> >>

\* The detail page of an item: its data-title-start attribute (<<>> when absent),
\* its document title, and its tech sections with their label/value rows.
Pair(label, value) == [label |-> label, value |-> value]
Section(h3, pairs) == [h3 |-> h3, pairs |-> pairs]
DetailPage(spec_url) ==
  IF spec_url.href.id = Sku9
  THEN [title |-> <<>>, doc_title |-> <<"P", "9">>,
        sections |-> << Section(<<"E">>, << Pair(<<" ", "f", " ", " ", "g", " ">>, <<"4", "nbsp", "G", " ">>),
                                           Pair(<<"h">>, <<" ">>) >>),
                        Section(<<" ">>, << Pair(<<"i">>, <<"1">>) >>),
                        Section(<<"C">>, << Pair(<<>>, <<"2">>), Pair(<<"k">>, <<"3">>) >>) >>]
  ELSE IF spec_url.href.id = Sku10
  THEN [title |-> <<"P", " ", "1", "0">>, doc_title |-> <<"T">>,
        sections |-> << Section(<<"E">>, << Pair(<<"f">>, <<"5">>) >>) >>]
  ELSE [title |-> <<>>, doc_title |-> <<>>,
        sections |-> << Section(<<"E">>, << Pair(<<"f">>, <<"6">>) >>) >>]

\* ---------------------------------------------------------- the state store
\* A table is the set of its rows; the PRIMARY KEY is enforced by the INSERT
\* variants below, as SQLite enforces it.
SeriesRow(url, category, family) == [url |-> url, category |-> category, family |-> family]
SkuRow(sku, category, family, spec_url, product_name) ==
  [sku |-> sku, category |-> category, family |-> family,
   spec_url |-> spec_url, product_name |-> product_name]
OutcomeRow(sku, scraped_at, status, last_error) ==
  [sku |-> sku, scraped_at |-> scraped_at, status |-> status, last_error |-> last_error]

\* Mutant of load_done_skus: the WHERE clause names a status never written.
load_done_skus_WrongStatus(scraped) == {r.sku : r \in {x \in scraped : x.status = "done"}}

load_done_skus(scraped) == {r.sku : r \in {x \in scraped : x.status = "ok"}}
load_failed_skus(scraped) == {r.sku : r \in {x \in scraped : x.status = "error"}}

\* Mutant of store_series: the table is overwritten by the batch.
store_series_Overwrite(table, series) ==
  {SeriesRow(series[i].url, series[i].category, series[i].family) : i \in 1..Len(series)}

\* executemany INSERT OR IGNORE INTO discovered_series, then commit.
RECURSIVE store_series(_, _)
store_series(table, series) ==
  IF series = <<>> THEN table
  ELSE store_series(
         IF \E r \in table : r.url = Head(series).url THEN table
         ELSE table \cup {SeriesRow(Head(series).url, Head(series).category, Head(series).family)},
         Tail(series))

\* Mutant of store_skus: INSERT OR REPLACE, the last mapping seen wins.
RECURSIVE store_skus_Replace(_, _)
store_skus_Replace(table, skus) ==
  IF skus = <<>> THEN table
  ELSE store_skus_Replace({r \in table : r.sku # Head(skus).sku} \cup {Head(skus)}, Tail(skus))

\* executemany INSERT OR IGNORE INTO discovered_skus, then commit.
RECURSIVE store_skus(_, _)
store_skus(table, skus) ==
  IF skus = <<>> THEN table
  ELSE store_skus(
         IF \E r \in table : r.sku = Head(skus).sku THEN table
         ELSE table \cup {Head(skus)},
         Tail(skus))

\* Mutant of mark_sku: INSERT OR IGNORE, the outcome already stored is kept.
mark_sku_Ignore(table, sku, at, status, error) ==
  IF \E r \in table : r.sku = sku THEN table
  ELSE table \cup {OutcomeRow(sku, at, status, error)}

\* INSERT OR REPLACE INTO scraped_skus, then commit.
mark_sku(table, sku, at, status, error) ==
  {r \in table : r.sku # sku} \cup {OutcomeRow(sku, at, status, error)}

\* ------------------------------------------------------------- page readers
\* [normalize_text(n) for n in category_names if n]
RECURSIVE NormalizeNonEmpty(_)
NormalizeNonEmpty(names) ==
  IF names = <<>> THEN <<>>
  ELSE IF Head(names) = <<>> THEN NormalizeNonEmpty(Tail(names))
  ELSE <<normalize_text(Head(names))>> \o NormalizeNonEmpty(Tail(names))

discover_processor_categories == NormalizeNonEmpty(SiteCategories)

\* The loop over the category's links: links without href or text, or whose
\* href is no series link, are skipped.
RECURSIVE SeriesOfLinks(_, _)
SeriesOfLinks(category_name, links) ==
  IF links = <<>> THEN <<>>
  ELSE IF Head(links).href = NoHref \/ normalize_text(Head(links).text) = <<>>
       THEN SeriesOfLinks(category_name, Tail(links))
  ELSE IF Head(links).href.kind # "series"
       THEN SeriesOfLinks(category_name, Tail(links))
  ELSE <<SeriesRow(to_abs_url(Head(links).href), category_name, normalize_text(Head(links).text))>>
       \o SeriesOfLinks(category_name, Tail(links))

discover_series_for_category(category_name) ==
  SeriesOfLinks(category_name, SiteLinks(category_name))

\* Mutant of SkusOfRows: the loop is left at the first row it cannot use
\* (break instead of continue).
RECURSIVE SkusOfRows_StopAtMalformed(_, _, _)
SkusOfRows_StopAtMalformed(category, family, items) ==
  IF items = <<>> THEN <<>>
  ELSE IF Strip(Head(items).sku) = <<>> \/ Head(items).href = NoHref
          \/ Head(items).href.kind # "spec"
       THEN <<>>
  ELSE <<SkuRow(Strip(Head(items).sku), category, family,
                to_abs_url(Head(items).href), normalize_text(Head(items).name))>>
       \o SkusOfRows_StopAtMalformed(category, family, Tail(items))

\* The loop over the product-table rows: rows without sku or href, or whose
\* href is no specifications page, are skipped.
RECURSIVE SkusOfRows(_, _, _)
SkusOfRows(category, family, items) ==
  IF items = <<>> THEN <<>>
  ELSE IF Strip(Head(items).sku) = <<>> \/ Head(items).href = NoHref
       THEN SkusOfRows(category, family, Tail(items))
  ELSE IF Head(items).href.kind # "spec"
       THEN SkusOfRows(category, family, Tail(items))
  ELSE <<SkuRow(Strip(Head(items).sku), category, family,
                to_abs_url(Head(items).href), normalize_text(Head(items).name))>>
       \o SkusOfRows(category, family, Tail(items))

extract_skus_from_series_page(category, family, series_url) ==
  SkusOfRows(category, family, SiteTable(series_url))

\* Mutant of RowsOfPairs: the emptiness test is made on the raw text, before
\* normalization.
RECURSIVE RowsOfPairs_RawTest(_, _)
RowsOfPairs_RawTest(group_name, pairs) ==
  IF pairs = <<>> THEN <<>>
  ELSE IF Head(pairs).label = <<>> \/ Head(pairs).value = <<>>
       THEN RowsOfPairs_RawTest(group_name, Tail(pairs))
  ELSE << <<group_name, normalize_text(Head(pairs).label), normalize_text(Head(pairs).value)>> >>
       \o RowsOfPairs_RawTest(group_name, Tail(pairs))

\* The inner loop of scrape_spec_rows over one section's pairs.
RECURSIVE RowsOfPairs(_, _)
RowsOfPairs(group_name, pairs) ==
  IF pairs = <<>> THEN <<>>
  ELSE IF normalize_text(Head(pairs).label) = <<>> \/ normalize_text(Head(pairs).value) = <<>>
       THEN RowsOfPairs(group_name, Tail(pairs))
  ELSE << <<group_name, normalize_text(Head(pairs).label), normalize_text(Head(pairs).value)>> >>
       \o RowsOfPairs(group_name, Tail(pairs))

\* The outer loop over the sections: a section with an empty heading is skipped.
RECURSIVE RowsOfSections(_)
RowsOfSections(sections) ==
  IF sections = <<>> THEN <<>>
  ELSE IF normalize_text(Head(sections).h3) = <<>> THEN RowsOfSections(Tail(sections))
  ELSE RowsOfPairs(normalize_text(Head(sections).h3), Head(sections).pairs)
       \o RowsOfSections(Tail(sections))

scrape_spec_rows(spec_url) ==
  LET page == DetailPage(spec_url)
  IN  [product_name |-> normalize_text(IF page.title # <<>> THEN page.title ELSE page.doc_title),
       rows |-> RowsOfSections(page.sections)]

\* ------------------------------------------------------------ the work queue
\* Mutant of OrderBySku: ORDER BY CAST(sku AS INTEGER).
RECURSIVE OrderBySku_Numeric(_)
OrderBySku_Numeric(table) ==
  IF table = {} THEN <<>>
  ELSE LET first == CHOOSE r \in table : \A o \in table : o.sku # r.sku => NumVal(r.sku) < NumVal(o.sku)
       IN  <<first>> \o OrderBySku_Numeric(table \ {first})

\* SELECT ... FROM discovered_skus ORDER BY sku (sku is TEXT).
RECURSIVE OrderBySku(_)
OrderBySku(table) ==
  IF table = {} THEN <<>>
  ELSE LET first == CHOOSE r \in table : \A o \in table : o.sku # r.sku => TextLess(r.sku, o.sku)
       IN  <<first>> \o OrderBySku(table \ {first})

\* Mutant of FilterPending: the --retry-errors branch is taken whatever the flag.
RECURSIVE FilterPending_AlwaysRetry(_, _, _, _)
FilterPending_AlwaysRetry(rows, done, failed, retry_errors) ==
  IF rows = <<>> THEN <<>>
  ELSE (IF Head(rows).sku \notin done THEN <<Head(rows)>> ELSE <<>>)
       \o FilterPending_AlwaysRetry(Tail(rows), done, failed, retry_errors)

\* The list comprehension that filters the rows into pending.
RECURSIVE FilterPending(_, _, _, _)
FilterPending(rows, done, failed, retry_errors) ==
  IF rows = <<>> THEN <<>>
  ELSE LET keep == IF retry_errors THEN Head(rows).sku \notin done
                   ELSE Head(rows).sku \notin done /\ Head(rows).sku \notin failed
       IN  (IF keep THEN <<Head(rows)>> ELSE <<>>)
           \o FilterPending(Tail(rows), done, failed, retry_errors)

\* Mutant of CapPending: the slice keeps one item too many.
CapPending_OffByOne(pending, max_skus) ==
  IF max_skus # 0 /\ max_skus > 0
  THEN SubSeq(pending, 1, IF max_skus + 1 < Len(pending) THEN max_skus + 1 ELSE Len(pending))
  ELSE pending

\* pending[: max_skus] when max_skus > 0
CapPending(pending, max_skus) ==
  IF max_skus # 0 /\ max_skus > 0
  THEN SubSeq(pending, 1, IF max_skus < Len(pending) THEN max_skus ELSE Len(pending))
  ELSE pending

BuildPending(skus_table, done, failed, retry_errors, max_skus) ==
  CapPending(FilterPending(OrderBySku(skus_table), done, failed, retry_errors), max_skus)

\* ------------------------------------------------------------------ the sink
CsvHeader == [kind |-> "header"]
CsvLine(sku, product_name, product_url, category, family, spec, scraped_at) ==
  [kind |-> "row", sku |-> sku, product_name |-> product_name, product_url |-> product_url,
   category |-> category, family |-> family, spec_group |-> spec[1],
   spec_name |-> spec[2], spec_value |-> spec[3], scraped_at |-> scraped_at]

\* Mutants of write_csv_rows: the header is written by every call; the file is
\* opened with mode "w", so each call starts the file over.
write_csv_rows_HeaderAlways(file, sku, product_name, product_url, category, family, spec_rows, at) ==
  [file |-> [exists |-> TRUE,
             lines |-> file.lines \o <<CsvHeader>> \o
                       [i \in 1..Len(spec_rows) |->
                          CsvLine(sku, product_name, product_url, category, family, spec_rows[i], at)]],
   count |-> Len(spec_rows)]
write_csv_rows_Truncate(file, sku, product_name, product_url, category, family, spec_rows, at) ==
  [file |-> [exists |-> TRUE,
             lines |-> (IF ~file.exists THEN <<CsvHeader>> ELSE <<>>) \o
                       [i \in 1..Len(spec_rows) |->
                          CsvLine(sku, product_name, product_url, category, family, spec_rows[i], at)]],
   count |-> Len(spec_rows)]

\* write_csv_rows: the header when the file did not exist, then one line per row.
write_csv_rows(file, sku, product_name, product_url, category, family, spec_rows, at) ==
  LET is_new == ~file.exists
      lines == [i \in 1..Len(spec_rows) |->
                  CsvLine(sku, product_name, product_url, category, family, spec_rows[i], at)]
  IN  [file |-> [exists |-> TRUE,
                 lines |-> file.lines \o (IF is_new THEN <<CsvHeader>> ELSE <<>>) \o lines],
       count |-> Len(spec_rows)]

\* ------------------------------------------------------------------- state
VARIABLES
  discovered_series,  \* table discovered_series (durable)
  discovered_skus,    \* table discovered_skus (durable)
  scraped_skus,       \* table scraped_skus (durable)
  out_csv,            \* the output log: [exists, lines] (durable)
  runs,               \* invocations of main so far
  pc,                 \* position of the running main, or how the last run ended
  args,               \* the parsed flags of the current run
  done_skus,          \* main's done_skus, loaded at start
  failed_skus,        \* main's failed_skus, loaded at start
  categories,         \* main's categories
  all_series,         \* main's all_series
  pos,                \* index of the discovery loop in progress
  pending,            \* main's pending: the work queue of the run
  idx,                \* enumerate(pending, start=1) index of the item in progress
  cur,                \* product_name and packed_rows of the item in progress
  storage_saves,      \* storage_state(path=...) calls of the run
  firstSeen,          \* history: the first SkuRow ever inserted for each sku
  walks,              \* history: discovery walks completed so far
  lastAttempt,        \* history: how the latest attempt on each item ended
  prev,               \* history: --retry-errors of the run that ended last, and its queue items left without outcome
  loop,               \* the scrape loop of main over a long queue, by its counters
  sink,               \* write_csv_rows called repeatedly on one path
  nav,                \* one call of goto_with_retry
  pace,               \* the page fetches and sleeps of one run of main, in order
  txt,                \* one call of normalize_text
  detail,             \* the row loops of scrape_spec_rows on one detail page
  listing,            \* the row loop of extract_skus_from_series_page on one product table
  setup,              \* main of the scraper up to its try block, and what the run did after
  wide,               \* one run of convert_to_wide.py
  llm                 \* one run of convert_to_llm.py --format json

vars == << discovered_series, discovered_skus, scraped_skus, out_csv, runs, pc, args,
           done_skus, failed_skus, categories, all_series, pos, pending, idx, cur,
           storage_saves, firstSeen, walks, lastAttempt, prev,
           loop, sink, nav, pace, txt, detail, listing, setup, wide, llm >>

\* The variables of the engine (Spec), and those of the specifications that
\* exercise one function or one loop on inputs of their own.
engine == << discovered_series, discovered_skus, scraped_skus, out_csv, runs, pc, args,
             done_skus, failed_skus, categories, all_series, pos, pending, idx, cur,
             storage_saves, firstSeen, walks, lastAttempt, prev >>
units == << loop, sink, nav, pace, txt, detail, listing, setup, wide, llm >>

\* The value of a unit variable in the specifications that do not use it.
Off == [pc |-> "off"]

durable == << discovered_series, discovered_skus, scraped_skus, out_csv >>
history == << firstSeen, walks, lastAttempt, prev >>

ItemIds == {Sku2, Sku9, Sku10}

\* utc_now_iso(): the clock is read as the serial number of the extraction
\* attempt in progress (run, then position in the run's queue), so a later
\* attempt reads a later time and the calls of one attempt read the same time.
AttemptTime(i) == runs * (Cardinality(ItemIds) + 1) + i
utc_now_iso == AttemptTime(idx)

\* The cookie checkpoint period of the scrape loop.
SaveEvery == 25

EndPcs == {"idle", "done", "aborted", "terminated"}
DiscoveryPcs == {"categories", "series", "skus"}
ScrapePcs == {"fetch", "write", "mark"}
RunningPcs == DiscoveryPcs \cup ScrapePcs \cup {"queue", "final"}

Flags == [retry_errors : BOOLEAN, max_skus : 0..MaxLimit, skip_discovery : BOOLEAN]
NoFlags == [retry_errors |-> FALSE, max_skus |-> 0, skip_discovery |-> FALSE]
NoCur == [product_name |-> <<>>, rows |-> <<>>]

\* str(e) of the exception a step raises.
ErrFetch == "Timeout 60000ms exceeded"
ErrWrite == "Permission denied"

QueueSkus(q) == {q[i].sku : i \in 1..Len(q)}

\* The queue items whose outcome the current run has committed.
Committed ==
  {pending[i].sku : i \in {j \in 1..Len(pending) :
     \E r \in scraped_skus : r.sku = pending[j].sku /\ r.scraped_at = AttemptTime(j)}}

\* State after ensure_db on a fresh path: three empty tables, no output log.
EngineIdle ==
  /\ discovered_series = {}
  /\ discovered_skus = {}
  /\ scraped_skus = {}
  /\ out_csv = [exists |-> FALSE, lines |-> <<>>]
  /\ runs = 0
  /\ pc = "idle"
  /\ args = NoFlags
  /\ done_skus = {}
  /\ failed_skus = {}
  /\ categories = <<>>
  /\ all_series = <<>>
  /\ pos = 1
  /\ pending = <<>>
  /\ idx = 1
  /\ cur = NoCur
  /\ storage_saves = 0
  /\ firstSeen = {}
  /\ walks = 0
  /\ lastAttempt = [s \in ItemIds |-> "none"]
  /\ prev = [retry_errors |-> FALSE, lost |-> {}]

\* The engine alone: the unit variables stay unused.
Init ==
  /\ EngineIdle
  /\ loop = Off
  /\ sink = Off
  /\ nav = Off
  /\ pace = Off
  /\ txt = Off
  /\ detail = Off
  /\ listing = Off
  /\ setup = Off
  /\ wide = Off
  /\ llm = Off

\* The process ends (return, uncaught exception or kill): its memory is gone.
\* What the run did is kept in prev for the properties of the following run.
EndRun(exit) ==
  /\ pc' = exit
  /\ prev' = [retry_errors |-> args.retry_errors, lost |-> QueueSkus(pending) \ Committed]
  /\ args' = NoFlags
  /\ done_skus' = {}
  /\ failed_skus' = {}
  /\ categories' = <<>>
  /\ all_series' = <<>>
  /\ pos' = 1
  /\ pending' = <<>>
  /\ idx' = 1
  /\ cur' = NoCur

\* main up to the try block: parse_args, ensure_db, load_done_skus,
\* load_failed_skus, browser launch.
StartRun(a) ==
  /\ pc \in EndPcs
  /\ runs < MaxRuns
  /\ runs' = runs + 1
  /\ args' = a
  /\ done_skus' = load_done_skus(scraped_skus)
  /\ failed_skus' = load_failed_skus(scraped_skus)
  /\ categories' = <<>>
  /\ all_series' = <<>>
  /\ pos' = 1
  /\ pending' = <<>>
  /\ idx' = 1
  /\ cur' = NoCur
  /\ storage_saves' = 0
  /\ pc' = IF a.skip_discovery THEN "queue" ELSE "categories"
  /\ UNCHANGED << units, durable, firstSeen, walks, lastAttempt, prev >>

\* categories = discover_processor_categories(page)
DiscoverCategories ==
  /\ pc = "categories"
  /\ categories' = discover_processor_categories
  /\ pos' = 1
  /\ pc' = IF categories' = <<>> THEN "queue" ELSE "series"
  /\ UNCHANGED << units, durable, runs, args, done_skus, failed_skus, all_series,
                  pending, idx, cur, storage_saves, history >>

\* One iteration of "for cat in categories".
DiscoverSeries ==
  /\ pc = "series"
  /\ LET series == discover_series_for_category(categories[pos])
     IN  /\ discovered_series' = store_series(discovered_series, series)
         /\ all_series' = all_series \o series
  /\ IF pos < Len(categories)
     THEN pos' = pos + 1 /\ pc' = "series"
     ELSE pos' = 1 /\ pc' = (IF all_series' = <<>> THEN "queue" ELSE "skus")
  /\ UNCHANGED << units, discovered_skus, scraped_skus, out_csv, runs, args, done_skus,
                  failed_skus, categories, pending, idx, cur, storage_saves, history >>

\* One iteration of "for series in all_series".
ExtractSkus ==
  /\ pc = "skus"
  /\ LET s == all_series[pos]
         skus == extract_skus_from_series_page(s.category, s.family, s.url)
         known == {r.sku : r \in firstSeen}
     IN  /\ discovered_skus' = store_skus(discovered_skus, skus)
         /\ firstSeen' = firstSeen \cup
              {skus[i] : i \in {j \in 1..Len(skus) :
                                  /\ skus[j].sku \notin known
                                  /\ \A k \in 1..(j - 1) : skus[k].sku # skus[j].sku}}
  /\ IF pos < Len(all_series)
     THEN pos' = pos + 1 /\ pc' = "skus" /\ walks' = walks
     ELSE pos' = 1 /\ pc' = "queue" /\ walks' = walks + 1
  /\ UNCHANGED << units, discovered_series, scraped_skus, out_csv, runs, args, done_skus,
                  failed_skus, categories, all_series, pending, idx, cur, storage_saves,
                  lastAttempt, prev >>

\* A discovery page raises after goto_with_retry's attempts (or its selector
\* wait times out): nothing in main catches it, the finally block closes the
\* browser and the exception ends the process.
DiscoveryFails ==
  /\ pc \in DiscoveryPcs
  /\ EndRun("aborted")
  /\ UNCHANGED << units, durable, runs, storage_saves, firstSeen, walks, lastAttempt >>

\* Mutant of BuildQueue: the items that already have rows in the output log
\* are left out of the queue.
BuildQueue_SkipLogged ==
  /\ pc = "queue"
  /\ LET logged == {out_csv.lines[i].sku :
                      i \in {j \in 1..Len(out_csv.lines) : out_csv.lines[j].kind = "row"}}
     IN  pending' = BuildPending({r \in discovered_skus : r.sku \notin logged}, done_skus,
                                 failed_skus, args.retry_errors, args.max_skus)
  /\ idx' = 1
  /\ pc' = IF pending' = <<>> THEN "final" ELSE "fetch"
  /\ UNCHANGED << units, durable, runs, args, done_skus, failed_skus, categories,
                  all_series, pos, cur, storage_saves, history >>

\* The SELECT, the pending filter and the --max-skus cut.
BuildQueue ==
  /\ pc = "queue"
  /\ pending' = BuildPending(discovered_skus, done_skus, failed_skus,
                             args.retry_errors, args.max_skus)
  /\ idx' = 1
  /\ pc' = IF pending' = <<>> THEN "final" ELSE "fetch"
  /\ UNCHANGED << units, durable, runs, args, done_skus, failed_skus, categories,
                  all_series, pos, cur, storage_saves, history >>

\* Mutants of on_item_error: the except clause swallows the exception without
\* recording it; the except clause records the error without its detail.
on_item_error_Swallow(table, sku, at, e) == table
on_item_error_NoDetail(table, sku, at, e) == mark_sku(table, sku, at, "error", "")

\* The except clause of the scrape loop: mark_sku(conn, sku, "error", str(e)).
on_item_error(table, sku, at, e) == mark_sku(table, sku, at, "error", e)

\* The loop moves to the next item, or leaves the loop after the last one.
NextItem ==
  /\ idx' = idx + 1
  /\ pc' = IF idx < Len(pending) THEN "fetch" ELSE "final"
  /\ cur' = NoCur

\* polite_sleep and scrape_spec_rows succeed for the item in progress.
Fetch ==
  /\ pc = "fetch"
  /\ LET r == pending[idx]
         got == scrape_spec_rows(r.spec_url)
     IN  cur' = [product_name |-> IF got.product_name # <<>> THEN got.product_name
                                  ELSE r.product_name,
                 rows |-> got.rows]
  /\ pc' = "write"
  /\ UNCHANGED << units, durable, runs, args, done_skus, failed_skus, categories,
                  all_series, pos, pending, idx, storage_saves, history >>

\* Mutant of FetchFails: with --retry-errors the failed item is put back at the
\* end of the queue of the run.
FetchFails_Requeue ==
  /\ pc = "fetch"
  /\ scraped_skus' = on_item_error(scraped_skus, pending[idx].sku, utc_now_iso, ErrFetch)
  /\ lastAttempt' = [lastAttempt EXCEPT ![pending[idx].sku] = "error"]
  /\ pending' = IF args.retry_errors THEN Append(pending, pending[idx]) ELSE pending
  /\ NextItem
  /\ UNCHANGED << units, discovered_series, discovered_skus, out_csv, runs, args,
                  done_skus, failed_skus, categories, all_series, pos,
                  storage_saves, firstSeen, walks, prev >>

\* scrape_spec_rows raises: the except clause records the error.
FetchFails ==
  /\ pc = "fetch"
  /\ scraped_skus' = on_item_error(scraped_skus, pending[idx].sku, utc_now_iso, ErrFetch)
  /\ lastAttempt' = [lastAttempt EXCEPT ![pending[idx].sku] = "error"]
  /\ NextItem
  /\ UNCHANGED << units, discovered_series, discovered_skus, out_csv, runs, args,
                  done_skus, failed_skus, categories, all_series, pos, pending,
                  storage_saves, firstSeen, walks, prev >>

\* Mutant of WriteCsv: mark_sku(..., "ok") is called before write_csv_rows, and
\* the step ends between the two.
WriteCsv_MarkFirst ==
  /\ pc = "write"
  /\ scraped_skus' = mark_sku(scraped_skus, pending[idx].sku, utc_now_iso, "ok", "")
  /\ pc' = "mark"
  /\ UNCHANGED << units, discovered_series, discovered_skus, out_csv, runs, args,
                  done_skus, failed_skus, categories, all_series, pos, pending, idx, cur,
                  storage_saves, history >>

\* write_csv_rows returns.
WriteCsv ==
  /\ pc = "write"
  /\ LET r == pending[idx]
     IN  out_csv' = write_csv_rows(out_csv, r.sku, cur.product_name, r.spec_url,
                                   r.category, r.family, cur.rows, utc_now_iso).file
  /\ pc' = "mark"
  /\ UNCHANGED << units, discovered_series, discovered_skus, scraped_skus, runs, args,
                  done_skus, failed_skus, categories, all_series, pos, pending, idx, cur,
                  storage_saves, history >>

\* write_csv_rows raises when it opens the file: the except clause records the error.
WriteFails ==
  /\ pc = "write"
  /\ scraped_skus' = on_item_error(scraped_skus, pending[idx].sku, utc_now_iso, ErrWrite)
  /\ lastAttempt' = [lastAttempt EXCEPT ![pending[idx].sku] = "error"]
  /\ NextItem
  /\ UNCHANGED << units, discovered_series, discovered_skus, out_csv, runs, args,
                  done_skus, failed_skus, categories, all_series, pos, pending,
                  storage_saves, firstSeen, walks, prev >>

\* Mutant of MarkOk: the item marked ok is deleted from discovered_skus.
MarkOk_Prune ==
  /\ pc = "mark"
  /\ scraped_skus' = mark_sku(scraped_skus, pending[idx].sku, utc_now_iso, "ok", "")
  /\ discovered_skus' = {r \in discovered_skus : r.sku # pending[idx].sku}
  /\ lastAttempt' = [lastAttempt EXCEPT ![pending[idx].sku] = "ok"]
  /\ storage_saves' = IF idx % SaveEvery = 0 THEN storage_saves + 1 ELSE storage_saves
  /\ NextItem
  /\ UNCHANGED << units, discovered_series, out_csv, runs, args,
                  done_skus, failed_skus, categories, all_series, pos, pending,
                  firstSeen, walks, prev >>

\* mark_sku(conn, sku, "ok"), the progress line and the periodic cookie save.
MarkOk ==
  /\ pc = "mark"
  /\ scraped_skus' = mark_sku(scraped_skus, pending[idx].sku, utc_now_iso, "ok", "")
  /\ lastAttempt' = [lastAttempt EXCEPT ![pending[idx].sku] = "ok"]
  /\ storage_saves' = IF idx % SaveEvery = 0 THEN storage_saves + 1 ELSE storage_saves
  /\ NextItem
  /\ UNCHANGED << units, discovered_series, discovered_skus, out_csv, runs, args,
                  done_skus, failed_skus, categories, all_series, pos, pending,
                  firstSeen, walks, prev >>

\* After the loop: the final storage_state save, then the finally block.
Finish ==
  /\ pc = "final"
  /\ storage_saves' = storage_saves + 1
  /\ EndRun("done")
  /\ UNCHANGED << units, durable, runs, firstSeen, walks, lastAttempt >>

\* The process is killed: only the durable state survives as it is.
Terminate ==
  /\ pc \in RunningPcs
  /\ EndRun("terminated")
  /\ UNCHANGED << units, durable, runs, storage_saves, firstSeen, walks, lastAttempt >>

Next ==
  \/ \E a \in Flags : StartRun(a)
  \/ DiscoverCategories
  \/ DiscoverSeries
  \/ ExtractSkus
  \/ DiscoveryFails
  \/ BuildQueue
  \/ Fetch
  \/ FetchFails
  \/ WriteCsv
  \/ WriteFails
  \/ MarkOk
  \/ Finish
  \/ Terminate

Spec == Init /\ [][Next]_vars

\* ------------------------------------------------------ the scrape loop alone
\* Largest queue the loop is run over.
MaxQueue == 26

\* The loop "for idx, r in enumerate(pending, start=1)" of main by its
\* counters: len(pending), idx, the items marked ok so far, the values that
\* count had at each periodic storage_state call, whether the call after the
\* loop was made, and the mark_sku calls made for the item processed last:
\* its place in the queue, the statuses in call order, the statement that
\* raised.
NoMarks == [item |-> 0, statuses |-> <<>>, raised |-> "none"]

LoopStart(len) ==
  [pc |-> IF len = 0 THEN "final" ELSE "item", len |-> len, idx |-> 1, oks |-> 0,
   saved_at |-> {}, final |-> FALSE, marks |-> NoMarks]

InitLoop ==
  /\ EngineIdle
  /\ loop \in {LoopStart(len) : len \in 0..MaxQueue}
  /\ sink = Off
  /\ nav = Off
  /\ pace = Off
  /\ txt = Off
  /\ detail = Off
  /\ listing = Off
  /\ setup = Off
  /\ wide = Off
  /\ llm = Off

\* enumerate yields the next item, or the loop is left after the last one.
LoopAdvance(l) ==
  IF l.idx < l.len THEN [l EXCEPT !.idx = l.idx + 1] ELSE [l EXCEPT !.pc = "final"]

\* The try body runs to its end: the item is marked ok, and the cookies are
\* saved when idx is a multiple of 25.
LoopItemOk ==
  /\ loop.pc = "item"
  /\ loop' = LoopAdvance([loop EXCEPT
                !.oks = loop.oks + 1,
                !.saved_at = IF loop.idx % SaveEvery = 0
                             THEN loop.saved_at \cup {loop.oks + 1}
                             ELSE loop.saved_at,
                !.marks = [item |-> loop.idx, statuses |-> <<"ok">>, raised |-> "none"]])
  /\ UNCHANGED << engine, sink, nav, pace, txt, detail, listing, setup, wide, llm >>

\* The statements of the try body that can raise before mark_sku(..., "ok").
BeforeMark == {"scrape_spec_rows", "write_csv_rows"}

\* The try body raises before the item is marked ok: the except clause marks it
\* error, and the save inside the try body is not reached.
LoopItemError ==
  /\ loop.pc = "item"
  /\ \E stmt \in BeforeMark :
       loop' = LoopAdvance([loop EXCEPT
                 !.marks = [item |-> loop.idx, statuses |-> <<"error">>, raised |-> stmt]])
  /\ UNCHANGED << engine, sink, nav, pace, txt, detail, listing, setup, wide, llm >>

\* The try body marks the item ok, idx is a multiple of 25 and
\* page.context.storage_state(path=...) raises: the call is inside the try
\* body, so the except clause runs mark_sku(..., "error", ...) for the item
\* just marked ok.
LoopSaveFails ==
  /\ loop.pc = "item"
  /\ loop.idx % SaveEvery = 0
  /\ loop' = LoopAdvance([loop EXCEPT
                !.oks = loop.oks + 1,
                !.marks = [item |-> loop.idx, statuses |-> <<"ok", "error">>,
                           raised |-> "storage_state"]])
  /\ UNCHANGED << engine, sink, nav, pace, txt, detail, listing, setup, wide, llm >>

\* page.context.storage_state(path=...) after the loop.
LoopFinish ==
  /\ loop.pc = "final"
  /\ loop' = [loop EXCEPT !.pc = "done", !.final = TRUE]
  /\ UNCHANGED << engine, sink, nav, pace, txt, detail, listing, setup, wide, llm >>

NextLoop ==
  \/ LoopItemOk
  \/ LoopItemError
  \/ LoopSaveFails
  \/ LoopFinish

SpecLoop == InitLoop /\ [][NextLoop]_vars

\* ----------------------------------------------------------- the sink alone
\* Number of write_csv_rows calls made on the path.
MaxAppends == 3

\* The lists of (group, name, value) rows handed to write_csv_rows.
RowLists ==
  { <<>>,
    << <<<<"E">>, <<"f">>, <<"5">>>> >>,
    << <<<<"E">>, <<"f">>, <<"5">>>>, <<<<"C">>, <<"k">>, <<"3">>>> >> }

\* A path that does not exist; no call made yet; the clock as last read.
InitSink ==
  /\ EngineIdle
  /\ sink = [pc |-> "open", file |-> [exists |-> FALSE, lines |-> <<>>], calls |-> <<>>, now |-> 0]
  /\ loop = Off
  /\ nav = Off
  /\ pace = Off
  /\ txt = Off
  /\ detail = Off
  /\ listing = Off
  /\ setup = Off
  /\ wide = Off
  /\ llm = Off

\* One call of write_csv_rows for an item; utc_now_iso() has a resolution of
\* one second, so the call may read the time the call before it read.
SinkAppend(sku, spec_rows, tick) ==
  /\ sink.pc = "open"
  /\ Len(sink.calls) < MaxAppends
  /\ LET at == sink.now + tick
         got == write_csv_rows(sink.file, sku, <<"P">>, to_abs_url(Href("spec", sku)),
                               CatD, <<"F">>, spec_rows, at)
     IN  sink' = [sink EXCEPT
                    !.file = got.file,
                    !.now = at,
                    !.calls = Append(sink.calls,
                                [sku |-> sku, spec_rows |-> spec_rows, at |-> at,
                                 from |-> Len(sink.file.lines), count |-> got.count])]
  /\ UNCHANGED << engine, loop, nav, pace, txt, detail, listing, setup, wide, llm >>

NextSink ==
  \E sku \in {Sku2, Sku9}, spec_rows \in RowLists, tick \in {0, 1} : SinkAppend(sku, spec_rows, tick)

SpecSink == InitSink /\ [][NextSink]_vars

\* ---------------------------------------------------- goto_with_retry alone
\* Largest value of the attempts parameter explored.
MaxAttempts == 4

\* str(e) of what page.goto raises.
GotoErrors == {"Timeout 120000ms exceeded", "net::ERR_CONNECTION_RESET", "net::ERR_NAME_NOT_RESOLVED"}

\* Mutant of RetryAfter: the test is "attempt <= attempts".
RetryAfter_Inclusive(attempt, attempts) == attempt <= attempts

\* "if attempt < attempts": another attempt follows this one.
RetryAfter(attempt, attempts) == attempt < attempts

\* time.sleep(2.0 * attempt), in seconds.
BackoffSeconds(attempt) == 2 * attempt

GotoEvent(result) == [op |-> "goto", result |-> result]
SleepEvent(seconds) == [op |-> "sleep", seconds |-> seconds]

\* A call goto_with_retry(page, url, attempts=n) at the head of its for loop:
\* attempt is the next value of range(1, attempts + 1), events what the call
\* has done so far, raised the exception that left the call.
InitNav ==
  /\ EngineIdle
  /\ nav \in {[pc |-> "loop", attempts |-> n, attempt |-> 1, last_err |-> "None",
               events |-> <<>>, raised |-> "None"] : n \in 0..MaxAttempts}
  /\ loop = Off
  /\ sink = Off
  /\ pace = Off
  /\ txt = Off
  /\ detail = Off
  /\ listing = Off
  /\ setup = Off
  /\ wide = Off
  /\ llm = Off

\* page.goto returns: return.
GotoOk ==
  /\ nav.pc = "loop"
  /\ nav.attempt <= nav.attempts
  /\ nav' = [nav EXCEPT !.events = Append(nav.events, GotoEvent("ok")), !.pc = "returned"]
  /\ UNCHANGED << engine, loop, sink, pace, txt, detail, listing, setup, wide, llm >>

\* page.goto raises e: sleep and continue, or raise after the last attempt.
GotoFails(e) ==
  /\ nav.pc = "loop"
  /\ nav.attempt <= nav.attempts
  /\ nav' = IF RetryAfter(nav.attempt, nav.attempts)
            THEN [nav EXCEPT !.last_err = e,
                             !.events = nav.events \o
                                        <<GotoEvent(e), SleepEvent(BackoffSeconds(nav.attempt))>>,
                             !.attempt = nav.attempt + 1]
            ELSE [nav EXCEPT !.last_err = e,
                             !.events = Append(nav.events, GotoEvent(e)),
                             !.raised = e,
                             !.pc = "raised"]
  /\ UNCHANGED << engine, loop, sink, pace, txt, detail, listing, setup, wide, llm >>

\* range(1, attempts + 1) is exhausted: the function falls off its end and
\* returns None (with the code as written, only when attempts < 1).
RangeExhausted ==
  /\ nav.pc = "loop"
  /\ nav.attempt > nav.attempts
  /\ nav' = [nav EXCEPT !.pc = "returned"]
  /\ UNCHANGED << engine, loop, sink, pace, txt, detail, listing, setup, wide, llm >>

NextNav ==
  \/ GotoOk
  \/ \E e \in GotoErrors : GotoFails(e)
  \/ RangeExhausted

SpecNav == InitNav /\ [][NextNav]_vars

\* ------------------------------------------- the fetches and sleeps of a run
\* Largest number of categories, of series and of queued items of the run.
MaxPages == 2

\* What the run does on the network, in order: a page fetch (one call of
\* goto_with_retry, by the kind of page and whether it returned), or a
\* polite_sleep with the delay drawn, in tenths of a second.
Fetched(kind, ok) == [op |-> "fetch", kind |-> kind, ok |-> ok]
Slept(tenths) == [op |-> "polite_sleep", tenths |-> tenths]

\* The shortest and the longest delay random.uniform(min_s, max_s) can draw.
polite_sleep(min_s, max_s) == {min_s, max_s}

\* main after the browser launch: --skip-discovery or not, and the site and
\* queue by their sizes: categories on the root page, series over all
\* categories (none without a category), items in pending.
InitPace ==
  /\ EngineIdle
  /\ pace \in {[pc |-> IF skip THEN (IF nitem > 0 THEN "item" ELSE "done") ELSE "root",
                ncat |-> ncat, nser |-> nser, nitem |-> nitem, i |-> 1, events |-> <<>>] :
               skip \in BOOLEAN, ncat \in 0..MaxPages,
               nser \in 0..MaxPages, nitem \in 0..MaxPages}
  /\ pace.ncat = 0 => pace.nser = 0
  /\ loop = Off
  /\ sink = Off
  /\ nav = Off
  /\ txt = Off
  /\ detail = Off
  /\ listing = Off
  /\ setup = Off
  /\ wide = Off
  /\ llm = Off

\* The loop entered next, from the given one on; an empty loop is passed over.
PaceEnter(p, phase) ==
  IF phase = "category" /\ p.ncat > 0 THEN [p EXCEPT !.pc = "category", !.i = 1]
  ELSE IF phase \in {"category", "series"} /\ p.nser > 0 THEN [p EXCEPT !.pc = "series", !.i = 1]
  ELSE IF phase # "done" /\ p.nitem > 0 THEN [p EXCEPT !.pc = "item", !.i = 1]
  ELSE [p EXCEPT !.pc = "done", !.i = 1]

\* The next iteration of the loop in progress, or the loop after it.
PaceAdvance(p, count, after) ==
  IF p.i < count THEN [p EXCEPT !.i = p.i + 1] ELSE PaceEnter(p, after)

\* discover_processor_categories: the root page is fetched; an exception
\* leaves main.
PaceRoot(ok) ==
  /\ pace.pc = "root"
  /\ LET p == [pace EXCEPT !.events = Append(pace.events, Fetched("root", ok))]
     IN  pace' = IF ok THEN PaceEnter(p, "category") ELSE [p EXCEPT !.pc = "aborted"]
  /\ UNCHANGED << engine, loop, sink, nav, txt, detail, listing, setup, wide, llm >>

\* One iteration of "for cat in categories": discover_series_for_category
\* fetches the root page again, then store_series and polite_sleep().
PaceCategory(ok, d) ==
  /\ pace.pc = "category"
  /\ pace' = IF ok
             THEN PaceAdvance([pace EXCEPT !.events = pace.events \o <<Fetched("category", TRUE), Slept(d)>>],
                              pace.ncat, "series")
             ELSE [pace EXCEPT !.events = Append(pace.events, Fetched("category", FALSE)),
                               !.pc = "aborted"]
  /\ UNCHANGED << engine, loop, sink, nav, txt, detail, listing, setup, wide, llm >>

\* One iteration of "for series in all_series": extract_skus_from_series_page
\* fetches the listing, then store_skus and polite_sleep().
PaceSeries(ok, d) ==
  /\ pace.pc = "series"
  /\ pace' = IF ok
             THEN PaceAdvance([pace EXCEPT !.events = pace.events \o <<Fetched("series", TRUE), Slept(d)>>],
                              pace.nser, "item")
             ELSE [pace EXCEPT !.events = Append(pace.events, Fetched("series", FALSE)),
                               !.pc = "aborted"]
  /\ UNCHANGED << engine, loop, sink, nav, txt, detail, listing, setup, wide, llm >>

\* One iteration of the scrape loop: polite_sleep(0.2, 0.8), then
\* scrape_spec_rows fetches the detail page; an exception is caught.
PaceItem(ok, d) ==
  /\ pace.pc = "item"
  /\ pace' = PaceAdvance([pace EXCEPT !.events = pace.events \o <<Slept(d), Fetched("item", ok)>>],
                         pace.nitem, "done")
  /\ UNCHANGED << engine, loop, sink, nav, txt, detail, listing, setup, wide, llm >>

NextPace ==
  \/ \E ok \in BOOLEAN : PaceRoot(ok)
  \/ \E ok \in BOOLEAN, d \in polite_sleep(6, 16) : PaceCategory(ok, d)
  \/ \E ok \in BOOLEAN, d \in polite_sleep(6, 16) : PaceSeries(ok, d)
  \/ \E ok \in BOOLEAN, d \in polite_sleep(2, 8) : PaceItem(ok, d)

SpecPace == InitPace /\ [][NextPace]_vars

\* ----------------------------------------------------- normalize_text alone
\* Longest input string.
MaxText == 5

\* Two letters, a space, a tab and a non-breaking space.
Alphabet == {"a", "b", " ", "\t", "nbsp"}
Texts == UNION {[1..n -> Alphabet] : n \in 0..MaxText}

InitText ==
  /\ EngineIdle
  /\ txt \in {[pc |-> "in", value |-> v, out |-> <<>>, again |-> <<>>] : v \in Texts}
  /\ loop = Off
  /\ sink = Off
  /\ nav = Off
  /\ pace = Off
  /\ detail = Off
  /\ listing = Off
  /\ setup = Off
  /\ wide = Off
  /\ llm = Off

\* out = normalize_text(value)
Normalize ==
  /\ txt.pc = "in"
  /\ txt' = [txt EXCEPT !.out = normalize_text(txt.value), !.pc = "once"]
  /\ UNCHANGED << engine, loop, sink, nav, pace, detail, listing, setup, wide, llm >>

\* again = normalize_text(out)
NormalizeAgain ==
  /\ txt.pc = "once"
  /\ txt' = [txt EXCEPT !.again = normalize_text(txt.out), !.pc = "twice"]
  /\ UNCHANGED << engine, loop, sink, nav, pace, detail, listing, setup, wide, llm >>

NextText ==
  \/ Normalize
  \/ NormalizeAgain

SpecText == InitText /\ [][NextText]_vars

\* ---------------------------------------------------- scrape_spec_rows alone
\* Largest number of elements (section headings and label/value rows) of a
\* detail page.
MaxCells == 5

\* The headings and the label/value rows a page is made of: headings that
\* normalize to E, to C and to nothing; a plain pair, a pair with blanks to
\* normalize, a pair whose label is blank, a pair whose value is empty.
Headings == { <<"E">>, <<"nbsp", "C", " ">>, <<" ">> }
Pairs ==
  { Pair(<<"f">>, <<"5">>),
    Pair(<<" ", "g", "\t", " ", "h">>, <<"6", "nbsp">>),
    Pair(<<"nbsp">>, <<"7">>),
    Pair(<<"k">>, <<>>) }

\* No element of the page rendered yet.
InitDetail ==
  /\ EngineIdle
  /\ detail = [pc |-> "page", size |-> 0, sections |-> <<>>, rows |-> <<>>]
  /\ loop = Off
  /\ sink = Off
  /\ nav = Off
  /\ pace = Off
  /\ txt = Off
  /\ listing = Off
  /\ setup = Off
  /\ wide = Off
  /\ llm = Off

\* The site renders one more section, by its heading.
RenderHeading(h3) ==
  /\ detail.pc = "page"
  /\ detail.size < MaxCells
  /\ detail' = [detail EXCEPT !.size = detail.size + 1,
                              !.sections = Append(detail.sections, Section(h3, <<>>))]
  /\ UNCHANGED << engine, loop, sink, nav, pace, txt, listing, setup, wide, llm >>

\* The site renders one more label/value row in the last section.
RenderPair(p) ==
  /\ detail.pc = "page"
  /\ detail.size < MaxCells
  /\ detail.sections # <<>>
  /\ detail' = [detail EXCEPT
                  !.size = detail.size + 1,
                  !.sections[Len(detail.sections)].pairs =
                     Append(detail.sections[Len(detail.sections)].pairs, p)]
  /\ UNCHANGED << engine, loop, sink, nav, pace, txt, listing, setup, wide, llm >>

\* The loops of scrape_spec_rows over the sections of the page and their rows.
ScrapeRows ==
  /\ detail.pc = "page"
  /\ detail' = [detail EXCEPT !.rows = RowsOfSections(detail.sections), !.pc = "scraped"]
  /\ UNCHANGED << engine, loop, sink, nav, pace, txt, listing, setup, wide, llm >>

NextDetail ==
  \/ \E h3 \in Headings : RenderHeading(h3)
  \/ \E p \in Pairs : RenderPair(p)
  \/ ScrapeRows

SpecDetail == InitDetail /\ [][NextDetail]_vars

\* ---------------------------------------- extract_skus_from_series_page alone
\* Largest number of rows of a product table.
MaxRows == 4

\* The rows a product table is made of: two rows the code can use (one with
\* blanks around its id), a row without data-product-id, a row whose id is
\* blank, a row without a link, and a row whose link is no specifications page.
TableRows ==
  { TableRow(Sku2, <<"N", "2">>, Href("spec", Sku2)),
    TableRow(<<" ", "9", " ">>, <<"N", " ", "9">>, Href("spec", Sku9)),
    TableRow(<<>>, <<"N">>, Href("spec", <<"7">>)),
    TableRow(<<" ">>, <<"N">>, Href("spec", <<"8">>)),
    TableRow(<<"5">>, <<>>, NoHref),
    TableRow(<<"6">>, <<"N", "6">>, Href("sku", <<"6">>)) }

\* No row of the table rendered yet.
InitListing ==
  /\ EngineIdle
  /\ listing = [pc |-> "table", items |-> <<>>, results |-> <<>>]
  /\ loop = Off
  /\ sink = Off
  /\ nav = Off
  /\ pace = Off
  /\ txt = Off
  /\ detail = Off
  /\ setup = Off
  /\ wide = Off
  /\ llm = Off

\* The site renders one more row of the table.
RenderRow(r) ==
  /\ listing.pc = "table"
  /\ Len(listing.items) < MaxRows
  /\ listing' = [listing EXCEPT !.items = Append(listing.items, r)]
  /\ UNCHANGED << engine, loop, sink, nav, pace, txt, detail, setup, wide, llm >>

\* The loop of extract_skus_from_series_page over the rows, and its return.
ExtractRows ==
  /\ listing.pc = "table"
  /\ listing' = [listing EXCEPT !.results = SkusOfRows(CatD, <<"F">>, listing.items),
                                !.pc = "returned"]
  /\ UNCHANGED << engine, loop, sink, nav, pace, txt, detail, setup, wide, llm >>

NextListing ==
  \/ \E r \in TableRows : RenderRow(r)
  \/ ExtractRows

SpecListing == InitListing /\ [][NextListing]_vars

\* ------------------------------------------------------ convert_to_wide.py
\* Largest number of rows of a log handed to a converter.
MaxLogRows == 3

\* The characters of the logs converted, in code point order: the order Python
\* compares str values by.
Ascii ==
  <<" ", "&", "(", ")", "0", "1", "2", "3", "4", "5", "6", "7", "8",
   "9", ":", "A", "B", "C", "D", "E", "F", "G", "H", "I", "J", "K",
   "L", "M", "N", "O", "P", "Q", "R", "S", "T", "U", "V", "W", "X",
   "Y", "Z", "a", "b", "c", "d", "e", "f", "g", "h", "i", "j", "k",
   "l", "m", "n", "o", "p", "q", "r", "s", "t", "u", "v", "w", "x",
   "y", "z">>
Code(c) == CHOOSE i \in 1..Len(Ascii) : Ascii[i] = c

\* str < str: by code point, a proper prefix first.
RECURSIVE StrLess(_, _)
StrLess(a, b) ==
  IF a = <<>> THEN b # <<>>
  ELSE IF b = <<>> THEN FALSE
  ELSE IF Head(a) # Head(b) THEN Code(Head(a)) < Code(Head(b))
  ELSE StrLess(Tail(a), Tail(b))

\* sorted() of a set of str values.
RECURSIVE SortedStr(_)
SortedStr(S) ==
  IF S = {} THEN <<>>
  ELSE LET m == CHOOSE x \in S : \A y \in S \ {x} : StrLess(x, y)
       IN  <<m>> \o SortedStr(S \ {m})

\* A dict with str keys is a function on its key set; d[k] = v adds or replaces.
EmptyDict == [k \in {} |-> <<>>]
Put(d, k, v) == [x \in DOMAIN d \cup {k} |-> IF x = k THEN v ELSE d[x]]

\* csv.DictReader over the log: the first line gives the field names, every
\* later line is one row dict; csv.writer and csv.reader are inverse on every
\* field value, so a row dict holds the fields as write_csv_rows was given them.
DictReader(lines) == IF lines = <<>> THEN <<>> ELSE Tail(lines)

group_order ==
  <<<<"E", "s", "s", "e", "n", "t", "i", "a", "l", "s">>,
   <<"C", "P", "U", " ", "S", "p", "e", "c", "i", "f", "i", "c", "a", "t", "i", "o", "n", "s">>,
   <<"S", "u", "p", "p", "l", "e", "m", "e", "n", "t", "a", "l", " ", "I", "n", "f", "o", "r", "m", "a", "t", "i", "o", "n">>,
   <<"M", "e", "m", "o", "r", "y", " ", "S", "p", "e", "c", "i", "f", "i", "c", "a", "t", "i", "o", "n", "s">>,
   <<"G", "P", "U", " ", "S", "p", "e", "c", "i", "f", "i", "c", "a", "t", "i", "o", "n", "s">>,
   <<"E", "x", "p", "a", "n", "s", "i", "o", "n", " ", "O", "p", "t", "i", "o", "n", "s">>,
   <<"P", "a", "c", "k", "a", "g", "e", " ", "S", "p", "e", "c", "i", "f", "i", "c", "a", "t", "i", "o", "n", "s">>,
   <<"A", "d", "v", "a", "n", "c", "e", "d", " ", "T", "e", "c", "h", "n", "o", "l", "o", "g", "i", "e", "s">>,
   <<"S", "e", "c", "u", "r", "i", "t", "y", " ", "&", " ", "R", "e", "l", "i", "a", "b", "i", "l", "i", "t", "y">>>>

\* f"{spec_group}: {spec_name}"
col_name(spec_group, spec_name) == spec_group \o <<":", " ">> \o spec_name

\* The first pass of convert_long_to_wide over the rows read: sku_data maps a
\* sku to its meta fields, taken from the first row of the sku, and to its
\* spec cells by column name, a later row replacing the cell of an earlier one;
\* spec_columns collects the column names (its insertion order is not used:
\* the keys are sorted before use). No column name equals a meta field name,
\* as every column name holds ": ", so the two kinds of keys are kept apart.
RECURSIVE FirstPass(_, _, _)
FirstPass(rows, sku_data, spec_columns) ==
  IF rows = <<>> THEN [sku_data |-> sku_data, spec_columns |-> spec_columns]
  ELSE LET row == Head(rows)
           col == col_name(row.spec_group, row.spec_name)
           entry == IF row.sku \in DOMAIN sku_data THEN sku_data[row.sku]
                    ELSE [meta |-> [sku |-> row.sku, product_name |-> row.product_name,
                                    product_url |-> row.product_url,
                                    category |-> row.category, family |-> row.family,
                                    scraped_at |-> row.scraped_at],
                          specs |-> EmptyDict]
       IN  FirstPass(Tail(rows),
                     Put(sku_data, row.sku,
                         [entry EXCEPT !.specs = Put(entry.specs, col, row.spec_value)]),
                     spec_columns \cup {col})

\* col.split(":")[0]
RECURSIVE BeforeColon(_)
BeforeColon(col) ==
  IF col = <<>> \/ Head(col) = ":" THEN <<>> ELSE <<Head(col)>> \o BeforeColon(Tail(col))

\* column_sort_key: the place of the column's group in group_order (unknown
\* groups after the known ones), then the column name.
column_sort_key(col) ==
  LET group == BeforeColon(col)
      known == {i \in 1..Len(group_order) : group_order[i] = group}
  IN  [group_idx |-> IF known = {} THEN Len(group_order)
                     ELSE (CHOOSE i \in known : \A j \in known : i <= j) - 1,
       col |-> col]
KeyLess(a, b) ==
  \/ a.group_idx < b.group_idx
  \/ a.group_idx = b.group_idx /\ StrLess(a.col, b.col)

\* sorted(spec_columns.keys(), key=column_sort_key)
RECURSIVE SortedCols(_)
SortedCols(S) ==
  IF S = {} THEN <<>>
  ELSE LET m == CHOOSE x \in S :
                  \A y \in S \ {x} : KeyLess(column_sort_key(x), column_sort_key(y))
       IN  <<m>> \o SortedCols(S \ {m})

\* The wide file: the header (the six meta columns, then header, the sorted
\* spec columns) and one row per sku in sorted order, each with its meta
\* fields and one cell per spec column, "" where the sku has no such cell.
WideFile(sku_data, spec_columns) ==
  LET sorted_spec_cols == SortedCols(spec_columns)
      skus == SortedStr(DOMAIN sku_data)
  IN  [exists |-> TRUE,
       header |-> sorted_spec_cols,
       rows |-> [k \in 1..Len(skus) |->
                   [meta |-> sku_data[skus[k]].meta,
                    cells |-> [p \in 1..Len(sorted_spec_cols) |->
                                 IF sorted_spec_cols[p] \in DOMAIN sku_data[skus[k]].specs
                                 THEN sku_data[skus[k]].specs[sorted_spec_cols[p]]
                                 ELSE <<>>]]]]

convert_long_to_wide(input) ==
  LET read == FirstPass(DictReader(input.lines), EmptyDict, {})
  IN  WideFile(read.sku_data, read.spec_columns)

\* The log rows the converters are run on: two ids, a known group and two
\* groups whose names, joined to their field names, spell the same text.
LogIds == {<<"2">>, <<"1", "0">>}
LogSpecs ==
  {<<"E", "s", "s", "e", "n", "t", "i", "a", "l", "s">>} \X {<<"C">>}
  \cup {<<"A">>} \X {<<"B", ":", " ", "C">>}
  \cup {<<"A", ":", " ", "B">>} \X {<<"C">>}
LogValues == {<<"v">>, <<"w">>}
LogRow(sku, name, spec, value, at) ==
  CsvLine(sku, name, <<"u">> \o sku, <<"D">>, <<"F">>, <<spec[1], spec[2], value>>, at)

NoFile == [exists |-> FALSE]
NewLog == [exists |-> TRUE, lines |-> <<CsvHeader>>]
NoLog == [exists |-> FALSE, lines |-> <<>>]
\* The log and the wide file of an earlier day: one item, one row.
OldLog ==
  [exists |-> TRUE,
   lines |-> <<CsvHeader, LogRow(<<"2">>, <<"X">>, <<<<"A">>, <<"C">>>>, <<"v">>, 1)>>]
StaleWide == convert_long_to_wide(OldLog)

\* A run of convert_to_wide.py: the input path holds no file or a log written
\* by write_csv_rows, the output path holds no file or an earlier output.
WideStart(input, output) ==
  [pc |-> "log", input |-> input, output |-> output, exit |-> -1, stdout |-> <<>>]

InitWide ==
  /\ EngineIdle
  /\ wide \in {WideStart(i, o) : i \in {NoLog, NewLog}, o \in {NoFile, StaleWide}}
  /\ loop = Off
  /\ sink = Off
  /\ nav = Off
  /\ pace = Off
  /\ txt = Off
  /\ detail = Off
  /\ listing = Off
  /\ setup = Off
  /\ llm = Off

\* Before the converter runs, the scraper appends one more row to the log.
WideLogRow(sku, spec, value) ==
  /\ wide.pc = "log"
  /\ wide.input.exists
  /\ Len(wide.input.lines) <= MaxLogRows
  /\ wide' = [wide EXCEPT !.input.lines =
                Append(@, LogRow(sku, <<"X">>, spec, value, Len(wide.input.lines)))]
  /\ UNCHANGED << engine, loop, sink, nav, pace, txt, detail, listing, setup, llm >>

\* main of convert_to_wide.py: a missing input is reported and the process
\* exits with status 1; otherwise the output is written over what the path held.
WideMain ==
  /\ wide.pc = "log"
  /\ wide' = IF ~wide.input.exists
             THEN [wide EXCEPT !.pc = "exited", !.exit = 1,
                               !.stdout = <<"Error: Input file not found">>]
             ELSE [wide EXCEPT !.pc = "exited", !.exit = 0,
                               !.output = convert_long_to_wide(wide.input),
                               !.stdout = <<"Reading", "Writing", "Done">>]
  /\ UNCHANGED << engine, loop, sink, nav, pace, txt, detail, listing, setup, llm >>

NextWide ==
  \/ \E sku \in LogIds, spec \in LogSpecs, value \in LogValues : WideLogRow(sku, spec, value)
  \/ WideMain

SpecWide == InitWide /\ [][NextWide]_vars

\* ------------------------------------------------------- convert_to_llm.py
\* Text operations of extract_model_name. The marks (R) and (TM) are the
\* one-character strings "reg" and "tm".
\* str.replace(c, ""): every occurrence of the character is dropped.
RECURSIVE RemoveChar(_, _)
RemoveChar(s, c) ==
  IF s = <<>> THEN <<>>
  ELSE IF Head(s) = c THEN RemoveChar(Tail(s), c)
  ELSE <<Head(s)>> \o RemoveChar(Tail(s), c)

\* str.replace("  ", " "): one pass from the left over non-overlapping pairs.
RECURSIVE ReplaceTwoSpaces(_)
ReplaceTwoSpaces(s) ==
  IF Len(s) < 2 THEN s
  ELSE IF s[1] = " " /\ s[2] = " " THEN <<" ">> \o ReplaceTwoSpaces(Tail(Tail(s)))
  ELSE <<Head(s)>> \o ReplaceTwoSpaces(Tail(s))

StartsWith(s, sub) == Len(sub) <= Len(s) /\ SubSeq(s, 1, Len(sub)) = sub

\* sub in s
RECURSIVE Contains(_, _)
Contains(s, sub) ==
  IF StartsWith(s, sub) THEN TRUE
  ELSE IF s = <<>> THEN FALSE
  ELSE Contains(Tail(s), sub)

\* s.split(sub)[0]: the text before the first occurrence of sub.
RECURSIVE SplitFirst(_, _)
SplitFirst(s, sub) ==
  IF s = <<>> \/ StartsWith(s, sub) THEN <<>>
  ELSE <<Head(s)>> \o SplitFirst(Tail(s), sub)

\* One round of the loop over the suffixes.
CutSuffix(name, suffix) ==
  IF Contains(name, suffix) THEN Strip(SplitFirst(name, suffix)) ELSE name

extract_model_name(product_name) ==
  LET name == ReplaceTwoSpaces(RemoveChar(RemoveChar(product_name, "reg"), "tm"))
  IN  Strip(CutSuffix(CutSuffix(name, <<"P", "r", "o", "c", "e", "s", "s", "o", "r">>),
                      <<"p", "r", "o", "c", "e", "s", "s", "o", "r">>))

\* An OrderedDict is the sequence of its (key, value) items in insertion
\* order; d[k] = v replaces the value of k where it stands, or adds the item
\* at the end.
HasKey(d, k) == \E i \in 1..Len(d) : d[i].key = k
Get(d, k) == d[CHOOSE i \in 1..Len(d) : d[i].key = k].value
SetItem(d, k, v) ==
  IF HasKey(d, k) THEN [i \in 1..Len(d) |-> IF d[i].key = k THEN [key |-> k, value |-> v] ELSE d[i]]
  ELSE Append(d, [key |-> k, value |-> v])

\* The read loop of load_long_csv: the entry of a sku is made from the first
\* row of the sku; a value is stored under its group and field, a later row
\* replacing an earlier one.
RECURSIVE LoadRows(_, _)
LoadRows(rows, sku_data) ==
  IF rows = <<>> THEN sku_data
  ELSE LET row == Head(rows)
           entry == IF HasKey(sku_data, row.sku) THEN Get(sku_data, row.sku)
                    ELSE [sku |-> row.sku, product_name |-> row.product_name,
                          product_url |-> row.product_url, category |-> row.category,
                          family |-> row.family, specs |-> <<>>]
           fields == IF HasKey(entry.specs, row.spec_group)
                     THEN Get(entry.specs, row.spec_group) ELSE <<>>
       IN  LoadRows(Tail(rows),
                    SetItem(sku_data, row.sku,
                            [entry EXCEPT !.specs =
                               SetItem(entry.specs, row.spec_group,
                                       SetItem(fields, row.spec_name, row.spec_value))]))

\* The groups of an entry in group_order, then its other groups as they came.
RECURSIVE KnownGroups(_, _)
KnownGroups(specs, order) ==
  IF order = <<>> THEN <<>>
  ELSE (IF HasKey(specs, Head(order))
        THEN << [key |-> Head(order), value |-> Get(specs, Head(order))] >> ELSE <<>>)
       \o KnownGroups(specs, Tail(order))
sorted_specs(specs) ==
  KnownGroups(specs, group_order)
  \o SelectSeq(specs, LAMBDA g : \A i \in 1..Len(group_order) : group_order[i] # g.key)

load_long_csv(input) ==
  LET sku_data == LoadRows(DictReader(input.lines), <<>>)
  IN  [i \in 1..Len(sku_data) |->
         [key |-> sku_data[i].key,
          value |-> [sku_data[i].value EXCEPT !.specs = sorted_specs(@)]]]

\* f"{model_name} (SKU {sku})"
SkuKey(model_name, sku) == model_name \o <<" ", "(", "S", "K", "U", " ">> \o sku \o <<")">>

\* The loop of write_json over sku_data.items(): by_model after the items.
RECURSIVE ByModel(_, _)
ByModel(items, by_model) ==
  IF items = <<>> THEN by_model
  ELSE LET sku == Head(items).key
           data == Head(items).value
           model_name == extract_model_name(data.product_name)
           record == [model |-> model_name, full_name |-> data.product_name,
                      sku |-> data.sku, category |-> data.category,
                      family |-> data.family, url |-> data.product_url,
                      specs |-> data.specs]
           key == IF HasKey(by_model, model_name) THEN SkuKey(model_name, sku)
                  ELSE model_name
       IN  ByModel(Tail(items), SetItem(by_model, key, record))

\* write_json: the file holds by_model as one JSON object.
write_json(sku_data) == [exists |-> TRUE, object |-> ByModel(sku_data, <<>>)]

\* The product names of the logs converted to JSON: a bare model name, a full
\* name that extracts to the same model, and a name that another item's
\* suffixed key spells.
JsonIds == {<<"7">>, <<"8">>, <<"9">>}
JsonNames ==
  { <<"X">>,
    <<"X", "reg", " ", "P", "r", "o", "c", "e", "s", "s", "o", "r", " ", "(", "4", "M", ")">>,
    <<"X", " ", "(", "S", "K", "U", " ", "7", ")">> }
JsonSpec == << <<"E", "s", "s", "e", "n", "t", "i", "a", "l", "s">>, <<"C">> >>

\* The .json file of an earlier day.
StaleJson == write_json(load_long_csv(OldLog))

\* A run of convert_to_llm.py --format json.
LlmStart(input, output) ==
  [pc |-> "log", format |-> "json", input |-> input, output |-> output,
   exit |-> -1, stdout |-> <<>>]

InitJson ==
  /\ EngineIdle
  /\ llm \in {LlmStart(i, o) : i \in {NoLog, NewLog}, o \in {NoFile, StaleJson}}
  /\ loop = Off
  /\ sink = Off
  /\ nav = Off
  /\ pace = Off
  /\ txt = Off
  /\ detail = Off
  /\ listing = Off
  /\ setup = Off
  /\ wide = Off

\* Before the converter runs, the scraper appends one more row to the log. The
\* rows of one sku carry one product name: the name of its first row.
LlmLogRow(sku, name) ==
  /\ llm.pc = "log"
  /\ llm.input.exists
  /\ Len(llm.input.lines) <= MaxLogRows
  /\ llm' = [llm EXCEPT !.input.lines =
               Append(@, LogRow(sku, name, JsonSpec, <<"v">>, Len(llm.input.lines)))]
  /\ UNCHANGED << engine, loop, sink, nav, pace, txt, detail, listing, setup, wide >>

\* main of convert_to_llm.py: a missing input is reported and the process exits
\* with status 1; otherwise the log is loaded and the .json file is written
\* over what the path held.
LlmMain ==
  /\ llm.pc = "log"
  /\ llm' = IF ~llm.input.exists
            THEN [llm EXCEPT !.pc = "exited", !.exit = 1,
                             !.stdout = <<"Error: Input file not found">>]
            ELSE [llm EXCEPT !.pc = "exited", !.exit = 0,
                             !.output = write_json(load_long_csv(llm.input)),
                             !.stdout = <<"Loading", "Loaded", "Written JSON", "Done">>]
  /\ UNCHANGED << engine, loop, sink, nav, pace, txt, detail, listing, setup, wide >>

NextJson ==
  \/ \E sku \in JsonIds, name \in JsonNames : LlmLogRow(sku, name)
  \/ LlmMain

SpecJson == InitJson /\ [][NextJson]_vars

\* ------------------------------------------------ the start of the programs
\* Largest number of pending items of the run started.
MaxPending == 2

\* main of scrape_intel_ark.py by its stages: ensure_db, the two loads, the
\* browser launch and new_page, then the try block by its item attempts. The
\* record holds the outcome rows of scraped_skus and the rows of the log as
\* counts, as the run found them and as they are now, the number of pending
\* items, the items attempted, and the process exit status.
SetupStart(outcomes, rows, pending_len) ==
  [pc |-> "ensure_db", found |-> [outcomes |-> outcomes, rows |-> rows],
   tables |-> outcomes > 0, outcomes |-> outcomes, rows |-> rows,
   pending_len |-> pending_len, browser |-> "none", attempts |-> 0, exit |-> -1]

InitSetup ==
  /\ EngineIdle
  /\ setup \in {SetupStart(o, r, n) : o \in 0..1, r \in 0..1, n \in 0..MaxPending}
  /\ wide \in {WideStart(i, o) : i \in {NoLog, OldLog}, o \in {NoFile, StaleWide}}
  /\ llm \in {LlmStart(i, o) : i \in {NoLog, OldLog}, o \in {NoFile, StaleJson}}
  /\ loop = Off
  /\ sink = Off
  /\ nav = Off
  /\ pace = Off
  /\ txt = Off
  /\ detail = Off
  /\ listing = Off

\* ensure_db: the tables are created if they are not there; no row is written.
SetupEnsureDb ==
  /\ setup.pc = "ensure_db"
  /\ setup' = [setup EXCEPT !.pc = "load", !.tables = TRUE]
  /\ UNCHANGED << engine, loop, sink, nav, pace, txt, detail, listing, wide, llm >>

\* load_done_skus and load_failed_skus read the store.
SetupLoad ==
  /\ setup.pc = "load"
  /\ setup' = [setup EXCEPT !.pc = "launch"]
  /\ UNCHANGED << engine, loop, sink, nav, pace, txt, detail, listing, wide, llm >>

\* p.chromium.launch returns the browser, or raises: the call stands before
\* the try statement, so the exception leaves main and the process ends with
\* status 1.
SetupLaunch(ok) ==
  /\ setup.pc = "launch"
  /\ setup' = IF ok THEN [setup EXCEPT !.pc = "new_page", !.browser = "launched"]
              ELSE [setup EXCEPT !.pc = "raised", !.exit = 1]
  /\ UNCHANGED << engine, loop, sink, nav, pace, txt, detail, listing, wide, llm >>

\* Mutant of SetupNewPage: a failure is recorded as the error outcome of each
\* pending item before the process ends.
SetupNewPage_MarkPending(ok) ==
  /\ setup.pc = "new_page"
  /\ setup' = IF ok THEN [setup EXCEPT !.pc = "try", !.browser = "page"]
              ELSE [setup EXCEPT !.pc = "raised", !.exit = 1,
                                 !.outcomes = setup.outcomes + setup.pending_len]
  /\ UNCHANGED << engine, loop, sink, nav, pace, txt, detail, listing, wide, llm >>

\* new_page returns the page, or raises; this call too stands before the try.
SetupNewPage(ok) ==
  /\ setup.pc = "new_page"
  /\ setup' = IF ok THEN [setup EXCEPT !.pc = "try", !.browser = "page"]
              ELSE [setup EXCEPT !.pc = "raised", !.exit = 1]
  /\ UNCHANGED << engine, loop, sink, nav, pace, txt, detail, listing, wide, llm >>

\* One iteration of the scrape loop inside the try block: the item is
\* attempted; its rows are appended and it is marked ok, or the except clause
\* marks it error.
SetupItem(ok) ==
  /\ setup.pc = "try"
  /\ setup.attempts < setup.pending_len
  /\ setup' = [setup EXCEPT !.attempts = setup.attempts + 1,
                            !.rows = IF ok THEN setup.rows + 1 ELSE setup.rows,
                            !.outcomes = setup.outcomes + 1]
  /\ UNCHANGED << engine, loop, sink, nav, pace, txt, detail, listing, wide, llm >>

\* The loop ends, the finally block closes the browser, main returns.
SetupFinish ==
  /\ setup.pc = "try"
  /\ setup.attempts = setup.pending_len
  /\ setup' = [setup EXCEPT !.pc = "done", !.browser = "closed", !.exit = 0]
  /\ UNCHANGED << engine, loop, sink, nav, pace, txt, detail, listing, wide, llm >>

NextSetup ==
  \/ SetupEnsureDb
  \/ SetupLoad
  \/ \E ok \in BOOLEAN : SetupLaunch(ok)
  \/ \E ok \in BOOLEAN : SetupNewPage(ok)
  \/ \E ok \in BOOLEAN : SetupItem(ok)
  \/ SetupFinish
  \/ WideMain
  \/ LlmMain

SpecSetup == InitSetup /\ [][NextSetup]_vars

\* ================================================================= properties
HasStatus(sku, status) == \E r \in scraped_skus : r.sku = sku /\ r.status = status
HasOutcome(sku) == \E r \in scraped_skus : r.sku = sku
DiscoveredIds == {r.sku : r \in discovered_skus}

\* The pending policy, read from the tables: no ok outcome and, unless
\* errors are retried, no error outcome either.
PolicyPending(sku, retry_errors) ==
  /\ ~HasStatus(sku, "ok")
  /\ retry_errors \/ ~HasStatus(sku, "error")
PendingIds(retry_errors) == {s \in DiscoveredIds : PolicyPending(s, retry_errors)}

\* The queue of the run has just been built: no attempt of the run has ended
\* yet, so the tables are those the queue was built from.
QueueBuilt == (pc = "fetch" /\ idx = 1) \/ (pc = "final" /\ pending = <<>>)

\* C1: the queue a run builds holds discovered items only, every queued item is
\* pending by the policy (no ok outcome and, without --retry-errors, no error
\* outcome), and with no --max-skus cut every pending item is queued; with
\* --retry-errors the items whose outcome is error are queued.
C1_QueueIsPendingPolicy ==
  QueueBuilt =>
    /\ QueueSkus(pending) \subseteq PendingIds(args.retry_errors)
    /\ args.max_skus = 0 => QueueSkus(pending) = PendingIds(args.retry_errors)

\* C1 witness: {A: ok, B: error, C: none} queued with --retry-errors as {B, C}.
C1_Witness ==
  /\ QueueBuilt /\ args.retry_errors /\ args.max_skus = 0
  /\ \E a, b, c \in DiscoveredIds :
       /\ HasStatus(a, "ok") /\ HasStatus(b, "error") /\ ~HasOutcome(c)
       /\ QueueSkus(pending) = {b, c}

\* C2: a restarted run queues none of the items already marked ok, only items
\* that are not ok; when every discovered item is ok the queue is empty and the
\* run goes straight past the scrape loop (an attempt is only ever made on an
\* item of the queue).
C2_Resumability ==
  /\ QueueBuilt => \A s \in QueueSkus(pending) : ~HasStatus(s, "ok")
  /\ (QueueBuilt /\ \A s \in DiscoveredIds : HasStatus(s, "ok"))
       => (pending = <<>> /\ pc = "final")
  /\ pc \in ScrapePcs => idx \in 1..Len(pending)

\* C2 witness: the second run, with some items ok from the first, queues the rest.
C2_Witness ==
  /\ runs = 2 /\ QueueBuilt /\ pending # <<>>
  /\ \E s \in DiscoveredIds : HasStatus(s, "ok")
  /\ \A s \in QueueSkus(pending) : ~HasStatus(s, "ok")

\* C3: scraped_skus holds at most one outcome per item, and its status is that
\* of the latest attempt on the item that ended (none if no attempt ended).
C3_OneOutcomeLatestStatus ==
  \A s \in ItemIds :
    /\ Cardinality({r \in scraped_skus : r.sku = s}) <= 1
    /\ lastAttempt[s] = "none" <=> ~HasOutcome(s)
    /\ \A r \in scraped_skus : r.sku = s => r.status = lastAttempt[s]

\* C3 witness: an item that had outcome error when the run started has been
\* attempted again by the run and now has outcome ok.
C3_Witness ==
  /\ pc \in RunningPcs
  /\ \E s \in failed_skus : s \in Committed /\ HasStatus(s, "ok")

\* C4: a failing item gets an error outcome carrying the failure detail and the
\* loop goes on: every item before the one in progress has the outcome of its
\* attempt of this run, the loop is left only after the last item, and a run
\* that was not killed leaves no queue item without outcome.
C4_ItemFailureDoesNotAbort ==
  /\ pc \in ScrapePcs \cup {"final"} =>
       \A i \in 1..Len(pending) : i < idx =>
         \E r \in scraped_skus :
           /\ r.sku = pending[i].sku
           /\ r.scraped_at = AttemptTime(i)
           /\ r.status = lastAttempt[r.sku]
           /\ r.status = "error" => r.last_error \in {ErrFetch, ErrWrite}
           /\ r.status = "ok" => r.last_error = ""
  /\ pc = "final" => idx = Len(pending) + 1
  /\ pc \in {"done", "aborted"} => prev.lost = {}

\* C4 witness: the first item of the queue failed and the second was then
\* attempted and succeeded.
C4_Witness ==
  /\ pc = "final" /\ Len(pending) >= 2
  /\ {pending[1].sku, pending[2].sku} \subseteq Committed
  /\ HasStatus(pending[1].sku, "error") /\ HasStatus(pending[2].sku, "ok")

\* C5: the record stored for an item id is the one of the first insertion of
\* that id, whatever was inserted for the id later, and the id is stored once.
C5_FirstSeenWins ==
  /\ discovered_skus = firstSeen
  /\ \A r1, r2 \in discovered_skus : r1.sku = r2.sku => r1 = r2

\* C5 witness: after two complete walks, a stored series lists an item with a
\* record other than the stored one (a later insertion that was ignored).
C5_Witness ==
  /\ walks = 2
  /\ \E r \in discovered_skus, s \in discovered_series :
       LET listed == extract_skus_from_series_page(s.category, s.family, s.url)
       IN  \E i \in 1..Len(listed) : listed[i].sku = r.sku /\ listed[i] # r

\* C6: once a discovery walk has completed, walking the same catalog again
\* changes neither the discovered series nor the discovered items.
C6_IdempotentDiscovery ==
  [][walks >= 1 => /\ discovered_series' = discovered_series
                   /\ discovered_skus' = discovered_skus]_vars

\* C6 witness: a second walk has completed.
C6_Witness == walks = 2 /\ discovered_series # {} /\ discovered_skus # {}

\* C7 as claimed: the queue ascends by the number the id denotes.
C7_QueueAscendsNumerically ==
  \A i, j \in 1..Len(pending) : i < j => NumVal(pending[i].sku) < NumVal(pending[j].sku)

\* C7 as amended: the queue ascends strictly in the text order of the ids (the
\* order of the TEXT column: character by character, "10" before "2"), so it is
\* fixed by the set of queued ids alone.
C7_QueueAscendsAsText ==
  \A i, j \in 1..Len(pending) : i < j => TextLess(pending[i].sku, pending[j].sku)

\* C7 witness: a queue holding ids with different numbers of digits.
C7_Witness ==
  \E i, j \in 1..Len(pending) : Len(pending[i].sku) # Len(pending[j].sku)

\* C8: with --max-skus L > 0 the queue is the first min(L, n) of the n pending
\* items in the order of the store, and no attempt is made beyond the L-th;
\* with L = 0 the queue is all pending items.
C8_CapEnforcement ==
  /\ QueueBuilt =>
       LET P == PendingIds(args.retry_errors)
           n == Cardinality(P)
           L == args.max_skus
       IN  /\ Len(pending) = (IF L > 0 /\ L < n THEN L ELSE n)
           /\ Cardinality(QueueSkus(pending)) = Len(pending)
           /\ QueueSkus(pending) \subseteq P
           /\ \A q \in QueueSkus(pending), s \in P \ QueueSkus(pending) : TextLess(q, s)
  /\ (pc \in ScrapePcs /\ args.max_skus > 0) => idx <= args.max_skus

\* C8 witness: three pending items, a limit of two, a queue of two.
C8_Witness ==
  /\ QueueBuilt /\ args.max_skus = 2
  /\ Cardinality(PendingIds(args.retry_errors)) = 3
  /\ Len(pending) = 2

\* C9: whenever the process may be killed, every queue item before the one in
\* progress has its outcome committed; after a kill the committed outcomes are
\* in the table as they were recorded; and the queue items the previous run
\* left without outcome are pending in a run with the same --retry-errors
\* (and queued when the run has no --max-skus cut).
C9_CrashConsistency ==
  /\ pc \in ScrapePcs => \A i \in 1..(idx - 1) : pending[i].sku \in Committed
  /\ pc = "terminated" =>
       \A s \in ItemIds : lastAttempt[s] # "none" => HasStatus(s, lastAttempt[s])
  /\ (QueueBuilt /\ args.retry_errors = prev.retry_errors) =>
       /\ prev.lost \subseteq PendingIds(args.retry_errors)
       /\ args.max_skus = 0 => prev.lost \subseteq QueueSkus(pending)

\* C9 witness: the run after a killed one, with the same flag, queues the items
\* the killed run left without outcome.
C9_Witness ==
  /\ runs = 2 /\ pc = "fetch" /\ idx = 1
  /\ prev.lost # {} /\ args.retry_errors = prev.retry_errors
  /\ prev.lost \subseteq QueueSkus(pending)

\* C10 as claimed: a discovery page that fails is skipped and the run goes on
\* to the scrape phase, so no run is ended by a discovery-page failure.
C10_DiscoveryFailureIsLocal == pc # "aborted"

\* C11: the session cookies are saved each time the number of items processed
\* successfully in the run reaches a multiple of 25, whatever the interleaving
\* of successes and failures, and once more when the run ends.
C11_SavedAtEveryNthSuccess ==
  /\ \A k \in 1..(loop.oks \div SaveEvery) : (k * SaveEvery) \in loop.saved_at
  /\ loop.pc = "done" => loop.final

\* The lines of the log written by the k-th call: those after the lines the
\* call found (and after the header, for the first call) up to the lines the
\* next call found.
SinkWrittenBy(k) ==
  LET from == sink.calls[k].from + (IF k = 1 THEN 1 ELSE 0)
      upto == IF k < Len(sink.calls) THEN sink.calls[k + 1].from ELSE Len(sink.file.lines)
  IN  SubSeq(sink.file.lines, from + 1, upto)

\* C12: over any sequence of appends on a log that did not exist, the header is
\* written exactly once and is the first line; each append writes exactly one
\* line per row given, in order, all with the timestamp of that append, and
\* returns the number of rows it wrote.
C12_HeaderOnceAndCount ==
  sink.calls # <<>> =>
    /\ sink.file.exists
    /\ sink.file.lines[1] = CsvHeader
    /\ Cardinality({i \in 1..Len(sink.file.lines) : sink.file.lines[i] = CsvHeader}) = 1
    /\ \A k \in 1..Len(sink.calls) :
         LET c == sink.calls[k]
             written == SinkWrittenBy(k)
         IN  /\ Len(written) = Len(c.spec_rows)
             /\ c.count = Len(c.spec_rows)
             /\ \A i \in 1..Len(written) :
                  /\ written[i].kind = "row"
                  /\ written[i].sku = c.sku
                  /\ <<written[i].spec_group, written[i].spec_name, written[i].spec_value>>
                       = c.spec_rows[i]
                  /\ written[i].scraped_at = c.at

\* C12 witness: a first append with no rows (the header alone), then an append
\* of two rows, then a third append within the same second.
C12_Witness ==
  /\ Len(sink.calls) = 3
  /\ sink.calls[1].spec_rows = <<>>
  /\ Len(sink.calls[2].spec_rows) = 2
  /\ Len(sink.calls[3].spec_rows) = 1
  /\ sink.calls[3].at = sink.calls[2].at
  /\ Len(sink.file.lines) = 4

\* The row lines of the log, and the lines a step appended.
IsPrefix(s, t) == Len(s) <= Len(t) /\ SubSeq(t, 1, Len(s)) = s
RowLinesOf(lines, sku) == {i \in 1..Len(lines) : lines[i].kind = "row" /\ lines[i].sku = sku}
Appended == SubSeq(out_csv'.lines, Len(out_csv.lines) + 1, Len(out_csv'.lines))

\* C13: the output log is append-only: every step leaves the log it found as a
\* prefix of the log it leaves, and never removes the file; an append for an
\* item, whether or not the log already holds rows of that item, adds one line
\* for each row extracted, in order, after the lines already there.
C13_AppendOnly ==
  [][ /\ IsPrefix(out_csv.lines, out_csv'.lines)
      /\ out_csv.exists => out_csv'.exists
      /\ (pc = "write" /\ pc' = "mark") =>
           LET new == SelectSeq(Appended, LAMBDA l : l.kind = "row")
           IN  /\ Len(new) = Len(cur.rows)
               /\ \A i \in 1..Len(new) :
                    /\ new[i].sku = pending[idx].sku
                    /\ <<new[i].spec_group, new[i].spec_name, new[i].spec_value>> = cur.rows[i]
               /\ RowLinesOf(out_csv.lines, pending[idx].sku)
                    \subseteq RowLinesOf(out_csv'.lines, pending[idx].sku)
    ]_vars

\* C13 witness: an item that already had rows in the log has been scraped
\* again, and the log holds both row sets of it.
C13_Witness ==
  /\ pc = "mark"
  /\ \E i, j \in RowLinesOf(out_csv.lines, pending[idx].sku) :
       /\ i < j
       /\ out_csv.lines[i].scraped_at < out_csv.lines[j].scraped_at
       /\ out_csv.lines[j].scraped_at = utc_now_iso
       /\ out_csv.lines[i].spec_name = out_csv.lines[j].spec_name

\* The navigation attempts and the sleeps of the call, by their places in events.
NavGotos == {i \in 1..Len(nav.events) : nav.events[i].op = "goto"}
NavSleeps == {i \in 1..Len(nav.events) : nav.events[i].op = "sleep"}
NavAttemptNo(i) == Cardinality({j \in NavGotos : j <= i})

\* C14: goto_with_retry makes at most `attempts` navigation attempts; a
\* successful attempt is the last thing the call does and the call returns;
\* every sleep follows a failed attempt that is not the last allowed one and
\* lasts 2 s times that attempt's number, so the waits increase strictly and
\* there is exactly one between consecutive failed attempts; when every attempt
\* has failed the call raises the error of the last attempt, with no sleep
\* after it.
C14_BoundedRetry ==
  /\ Cardinality(NavGotos) <= nav.attempts
  /\ \A i \in NavGotos :
       IF nav.events[i].result = "ok"
       THEN i = Len(nav.events) /\ nav.pc = "returned"
       ELSE IF NavAttemptNo(i) < nav.attempts
            THEN /\ i < Len(nav.events)
                 /\ nav.events[i + 1] = SleepEvent(2 * NavAttemptNo(i))
                 /\ (i + 2 <= Len(nav.events) => nav.events[i + 2].op = "goto")
            ELSE i = Len(nav.events) /\ nav.pc = "raised" /\ nav.raised = nav.events[i].result
  /\ \A i \in NavSleeps : i > 1 /\ nav.events[i - 1].op = "goto" /\ nav.events[i - 1].result # "ok"
  /\ \A i, j \in NavSleeps : i < j => nav.events[i].seconds < nav.events[j].seconds
  /\ nav.pc = "raised" => Cardinality(NavGotos) = nav.attempts /\ nav.attempts > 0
  /\ (nav.pc = "returned" /\ nav.attempts > 0) =>
       nav.events # <<>> /\ nav.events[Len(nav.events)] = GotoEvent("ok")

\* C14 witness: with the default of 3 attempts, a call that raised the error
\* of its third attempt after waiting 2 s and then 4 s.
C14_Witness ==
  /\ nav.attempts = 3
  /\ nav.pc = "raised"
  /\ nav.raised = "net::ERR_CONNECTION_RESET"
  /\ nav.events = << GotoEvent("Timeout 120000ms exceeded"), SleepEvent(2),
                     GotoEvent("net::ERR_NAME_NOT_RESOLVED"), SleepEvent(4),
                     GotoEvent("net::ERR_CONNECTION_RESET") >>

\* C15: between any two consecutive page fetches of a run a politeness delay
\* from a bounded interval is applied, whether the earlier fetch succeeded or
\* failed: a fetch that is followed by anything is followed by a polite_sleep.
C15_PacedFetches ==
  \A i \in 1..(Len(pace.events) - 1) :
    pace.events[i].op = "fetch" =>
      /\ pace.events[i + 1].op = "polite_sleep"
      /\ pace.events[i + 1].tenths \in 2..16

\* Whitespace as the claim counts it: the non-breaking space included.
Blank(c) == c \in {" ", "\t", "\n", "nbsp"}

\* The places of s that remain: every non-blank character, and the first
\* character of every blank run that has a non-blank before it and after it.
Remaining(s) ==
  {i \in 1..Len(s) :
     \/ ~Blank(s[i])
     \/ /\ i > 1 /\ ~Blank(s[i - 1])
        /\ \E j \in (i + 1)..Len(s) : ~Blank(s[j])}

\* s with its blank runs collapsed to one space each and its ends trimmed.
Collapsed(s) ==
  LET keep == Remaining(s)
      nth(k) == CHOOSE i \in keep : Cardinality({j \in keep : j < i}) = k - 1
  IN  [k \in 1..Cardinality(keep) |-> IF Blank(s[nth(k)]) THEN " " ELSE s[nth(k)]]

\* C16: normalize_text returns its input with every run of whitespace and
\* non-breaking spaces collapsed to one space and the ends trimmed: the result
\* has no non-breaking space, tab or newline, no space at either end and no two
\* adjacent spaces; normalizing the result again gives the result.
C16_NormalizeText ==
  /\ txt.pc \in {"once", "twice"} =>
       /\ txt.out = Collapsed(txt.value)
       /\ \A i \in 1..Len(txt.out) : txt.out[i] \notin {"nbsp", "\t", "\n"}
       /\ txt.out # <<>> => txt.out[1] # " " /\ txt.out[Len(txt.out)] # " "
       /\ \A i \in 1..(Len(txt.out) - 1) : ~(txt.out[i] = " " /\ txt.out[i + 1] = " ")
  /\ txt.pc = "twice" => txt.again = txt.out

\* C16 witness: an input that starts with a non-breaking space and has a tab
\* followed by a space between its two letters, normalized twice.
C16_Witness ==
  /\ txt.pc = "twice"
  /\ txt.value = <<"nbsp", "a", "\t", " ", "b">>
  /\ txt.again = <<"a", " ", "b">>

\* The label/value pairs of the page by their places (section, row), those the
\* claim keeps, and their rendered order.
PageCells ==
  {c \in (1..Len(detail.sections)) \X (1..MaxCells) : c[2] <= Len(detail.sections[c[1]].pairs)}
CellHeading(c) == normalize_text(detail.sections[c[1]].h3)
CellLabel(c) == normalize_text(detail.sections[c[1]].pairs[c[2]].label)
CellValue(c) == normalize_text(detail.sections[c[1]].pairs[c[2]].value)
KeptCells ==
  {c \in PageCells : CellHeading(c) # <<>> /\ CellLabel(c) # <<>> /\ CellValue(c) # <<>>}
RenderedBefore(c, d) == c[1] < d[1] \/ (c[1] = d[1] /\ c[2] < d[2])
CellRank(c) == Cardinality({d \in KeptCells : RenderedBefore(d, c)}) + 1

\* C17: the rows returned for a page are exactly the label/value pairs of its
\* labeled sections whose label and value are non-empty after normalization,
\* in rendered section order and rendered pair order within a section; every
\* returned row has a non-empty group, field and value.
C17_RowsFilteredInOrder ==
  detail.pc = "scraped" =>
    /\ Len(detail.rows) = Cardinality(KeptCells)
    /\ \A c \in KeptCells :
         detail.rows[CellRank(c)] = <<CellHeading(c), CellLabel(c), CellValue(c)>>
    /\ \A i \in 1..Len(detail.rows) :
         detail.rows[i][1] # <<>> /\ detail.rows[i][2] # <<>> /\ detail.rows[i][3] # <<>>

\* C17 witness: a page of two labeled sections, the first with a pair to
\* normalize and a pair whose label is blank, scraped to two rows in rendered
\* order.
C17_Witness ==
  /\ detail.pc = "scraped"
  /\ Len(detail.sections) = 2
  /\ \E c \in PageCells : CellHeading(c) # <<>> /\ CellLabel(c) = <<>>
  /\ detail.rows = << <<<<"C">>, <<"g", " ", "h">>, <<"6">>>>, <<<<"E">>, <<"f">>, <<"5">>>> >>

\* A row of a listing is well-formed when it has an identifier, a detail link,
\* and the link is one to a specifications page.
WellFormed(r) == Strip(r.sku) # <<>> /\ r.href # NoHref /\ r.href.kind = "spec"
WellFormedAt == {i \in 1..Len(listing.items) : WellFormed(listing.items[i])}
RowRank(i) == Cardinality({j \in WellFormedAt : j <= i})

\* C18: a listing row without identifier, without detail link, or whose link
\* is no specifications link is left out of the discovered items, and every
\* well-formed row of the listing, before or after it, is discovered, in
\* listing order: the walk of the listing goes on to its last row.
C18_MalformedRowsSkipped ==
  listing.pc = "returned" =>
    /\ Len(listing.results) = Cardinality(WellFormedAt)
    /\ \A i \in WellFormedAt :
         /\ listing.results[RowRank(i)].sku = Strip(listing.items[i].sku)
         /\ listing.results[RowRank(i)].spec_url = to_abs_url(listing.items[i].href)
         /\ listing.results[RowRank(i)].product_name = normalize_text(listing.items[i].name)

\* C18 witness: a listing with a row without identifier and a row whose link
\* is no specifications link between two well-formed rows: both are discovered.
C18_Witness ==
  /\ listing.pc = "returned"
  /\ Len(listing.items) = 4
  /\ WellFormedAt = {1, 4}
  /\ listing.items[2].sku = <<>>
  /\ listing.items[3].href.kind = "sku"
  /\ Len(listing.results) = 2
  /\ listing.results[1].sku = Sku2 /\ listing.results[2].sku = Sku9

\* C19: the queue a run builds is determined by the State Store and the flags
\* alone: it is the ordered, filtered and cut selection computed from the
\* tables as they stand and from --retry-errors and --max-skus, whatever the
\* output log holds (no file, a header alone, rows of any items), so two runs
\* with the same store and flags build the same queue.
C19_QueueFromStoreAlone ==
  QueueBuilt =>
    pending = BuildPending(discovered_skus, load_done_skus(scraped_skus),
                           load_failed_skus(scraped_skus), args.retry_errors, args.max_skus)

\* C19 witness: a run has queued an item of which the output log already holds
\* rows.
C19_Witness ==
  /\ QueueBuilt
  /\ pending # <<>>
  /\ RowLinesOf(out_csv.lines, pending[1].sku) # {}

\* The two tables of graph nodes.
nodes == << discovered_series, discovered_skus >>

\* C20: graph nodes are write-once: a step never changes or deletes a stored
\* series or item entry, and never stores a second entry under a key; only the
\* series and listing steps of discovery add entries, so the scrape phase
\* (queue, extraction, sink append, outcome recording, checkpoint) and the
\* start and end of a run leave both tables unchanged, and so does every step
\* of a run with --skip-discovery.
C20_GraphNodesWriteOnce ==
  [][ /\ discovered_series \subseteq discovered_series'
      /\ discovered_skus \subseteq discovered_skus'
      /\ \A r, q \in discovered_series' : r.url = q.url => r = q
      /\ \A r, q \in discovered_skus' : r.sku = q.sku => r = q
      /\ pc \notin {"series", "skus"} => UNCHANGED nodes
      /\ (args.skip_discovery \/ args'.skip_discovery) => UNCHANGED nodes
    ]_vars

\* C20 witness: a run with --skip-discovery over a store that holds items has
\* extracted and written an item and is about to record its outcome.
C20_Witness ==
  /\ args.skip_discovery
  /\ pc = "mark"
  /\ discovered_skus # {}
  /\ discovered_series # {}

\* C22: within one run, an item whose outcome was committed as ok is given no
\* further outcome by the rest of its iteration (the progress line, the
\* periodic cookie save), and an item is marked error only when its own
\* extraction or its own log append raised.
C22_OkOutcomeStands ==
  /\ (loop.marks.statuses # <<>> /\ loop.marks.statuses[1] = "ok")
       => loop.marks.statuses = <<"ok">>
  /\ (loop.marks.statuses # <<>>
      /\ loop.marks.statuses[Len(loop.marks.statuses)] = "error")
       => loop.marks.raised \in {"scrape_spec_rows", "write_csv_rows"}

\* The places in the log of the lines an attempt on sku stamped at wrote.
AttemptLines(sku, at) ==
  {i \in 1..Len(out_csv.lines) :
     /\ out_csv.lines[i].kind = "row"
     /\ out_csv.lines[i].sku = sku
     /\ out_csv.lines[i].scraped_at = at}

\* C23: write before mark. In every reachable state, the states a kill leaves
\* included, an item whose outcome is ok has in the log the complete row set
\* of the attempt that outcome was committed for: one line per row its detail
\* page yields, in page order, adjacent, stamped with the outcome's time.
C23_WrittenBeforeMarked ==
  \A o \in scraped_skus : o.status = "ok" =>
    \E r \in discovered_skus :
      /\ r.sku = o.sku
      /\ LET rows == scrape_spec_rows(r.spec_url).rows
             at == AttemptLines(o.sku, o.scraped_at)
         IN  /\ Cardinality(at) = Len(rows)
             /\ \A i, j \in at : \A k \in i..j : k \in at
             /\ \A i \in at :
                  LET n == Cardinality({j \in at : j <= i})
                  IN  << out_csv.lines[i].spec_group, out_csv.lines[i].spec_name,
                         out_csv.lines[i].spec_value >> = rows[n]

\* C23 witness: an item is ok with its rows in the log, while the
\* log also holds rows of an item with no outcome and rows of an item whose
\* outcome is error: the converse does not hold.
C23_Witness ==
  /\ \E o \in scraped_skus :
       o.status = "ok" /\ Cardinality(AttemptLines(o.sku, o.scraped_at)) >= 1
  /\ \E s \in DiscoveredIds : RowLinesOf(out_csv.lines, s) # {} /\ ~HasOutcome(s)
  /\ \E s \in DiscoveredIds : RowLinesOf(out_csv.lines, s) # {} /\ HasStatus(s, "error")

\* C24: the queue of a run is fixed when it is built. While the loop runs, no
\* step changes the queue; the queue names no item twice; the index moves by
\* one step at a time and only forward; the only outcome written and the only
\* lines appended are those of the item at the index; the index leaves an item
\* exactly when that item's outcome of this run is written, so a failed item
\* is not attempted again in the run, with or without --retry-errors; and the
\* loop is left only after the last item.
C24_QueueFixedForTheRun ==
  [][ (pc \in ScrapePcs /\ pc' \in ScrapePcs \cup {"final"}) =>
        /\ pending' = pending
        /\ \A i, j \in 1..Len(pending) : i < j => pending[i].sku # pending[j].sku
        /\ idx \in 1..Len(pending)
        /\ idx' \in {idx, idx + 1}
        /\ \A r \in scraped_skus' \ scraped_skus : r.sku = pending[idx].sku
        /\ \A i \in (Len(out_csv.lines) + 1)..Len(out_csv'.lines) :
             out_csv'.lines[i].kind = "row" => out_csv'.lines[i].sku = pending[idx].sku
        /\ idx' = idx + 1 <=>
             \E r \in scraped_skus' \ scraped_skus : r.scraped_at = AttemptTime(idx)
        /\ pc' = "final" => idx' = Len(pending) + 1
    ]_vars

\* C24 witness: a run with --retry-errors has gone through a queue of two or
\* more items, the first of which failed in this run, and is past the last item
\* with one outcome of this run for each queued item.
C24_Witness ==
  /\ pc = "final"
  /\ args.retry_errors
  /\ Len(pending) >= 2
  /\ idx = Len(pending) + 1
  /\ \E r \in scraped_skus :
       r.sku = pending[1].sku /\ r.status = "error" /\ r.scraped_at = AttemptTime(1)
  /\ Committed = QueueSkus(pending)

\* The rows of the log converted, the ids they name, and the places of the rows
\* that are the last of the log for their (id, group, field).
WideLog == DictReader(wide.input.lines)
WideIds == {WideLog[i].sku : i \in 1..Len(WideLog)}
SameCell(a, b) ==
  a.sku = b.sku /\ a.spec_group = b.spec_group /\ a.spec_name = b.spec_name
LastOfCell == {i \in 1..Len(WideLog) :
                 \A j \in (i + 1)..Len(WideLog) : ~SameCell(WideLog[i], WideLog[j])}

\* C25: after a conversion, the wide file has exactly one row for each id of
\* the log and no other row, the rows ascend by id (ids compared as the text
\* they are), the column of each (group, field) holds in the row of each id
\* the value of the last log row for that (id, group, field), and a column for
\* which the id has no log row holds the empty string.
C25_OneRowPerIdLastValueWins ==
  (wide.pc = "exited" /\ wide.exit = 0) =>
    LET out == wide.output
    IN  /\ Len(out.rows) = Cardinality(WideIds)
        /\ {out.rows[k].meta.sku : k \in 1..Len(out.rows)} = WideIds
        /\ \A k, l \in 1..Len(out.rows) :
             k < l => StrLess(out.rows[k].meta.sku, out.rows[l].meta.sku)
        /\ \A i \in LastOfCell : \E p \in 1..Len(out.header) :
             /\ out.header[p] = col_name(WideLog[i].spec_group, WideLog[i].spec_name)
             /\ \A k \in 1..Len(out.rows) :
                  out.rows[k].meta.sku = WideLog[i].sku
                    => out.rows[k].cells[p] = WideLog[i].spec_value
        /\ \A k \in 1..Len(out.rows) : \A p \in 1..Len(out.header) :
             (\A i \in 1..Len(WideLog) :
                WideLog[i].sku = out.rows[k].meta.sku
                  => col_name(WideLog[i].spec_group, WideLog[i].spec_name) # out.header[p])
               => out.rows[k].cells[p] = <<>>

\* The ids of the log converted to JSON, and the keys and records of the
\* JSON object written.
JsonLog == DictReader(llm.input.lines)
JsonLogIds == {JsonLog[i].sku : i \in 1..Len(JsonLog)}
JsonObject == llm.output.object

\* C26: after write_json, the JSON object has exactly one entry for each id
\* of the log: as many entries as distinct ids, and every id in the record of
\* one of them; no item's entry is overwritten by a later item's.
C26_OneEntryPerItem ==
  (llm.pc = "exited" /\ llm.exit = 0) =>
    /\ Len(JsonObject) = Cardinality(JsonLogIds)
    /\ {JsonObject[k].value.sku : k \in 1..Len(JsonObject)} = JsonLogIds

MissingInputReport == <<"Error: Input file not found">>

\* C21: a run of the scraper that ends because the browser could not be
\* launched or the page could not be created has attempted no item, and the
\* outcome rows and the log rows are those it found; it ends with a failure
\* status. A converter started on a missing input reports the error, exits
\* with status 1 and leaves its output path as it was.
C21_SetupFailureDoesNoWork ==
  [][ /\ setup'.pc = "raised" =>
           /\ setup'.attempts = 0
           /\ setup'.outcomes = setup'.found.outcomes
           /\ setup'.rows = setup'.found.rows
           /\ setup'.exit = 1
      /\ (wide.pc = "log" /\ ~wide.input.exists /\ wide'.pc = "exited") =>
           /\ wide'.exit = 1
           /\ wide'.stdout = MissingInputReport
           /\ wide'.output = wide.output
      /\ (llm.pc = "log" /\ ~llm.input.exists /\ llm'.pc = "exited") =>
           /\ llm'.exit = 1
           /\ llm'.stdout = MissingInputReport
           /\ llm'.output = llm.output
    ]_vars

\* C21 witness: the scraper, with items pending, has ended on a new_page
\* failure after the browser was launched, and both converters have exited on
\* a missing input, one beside an earlier output file.
C21_Witness ==
  /\ setup.pc = "raised" /\ setup.browser = "launched" /\ setup.pending_len > 0
  /\ wide.pc = "exited" /\ ~wide.input.exists /\ wide.output = StaleWide
  /\ llm.pc = "exited" /\ ~llm.input.exists /\ llm.output = NoFile

====
